---- MODULE Spec2Model ----
(***************************************************************************)
(* gh-trends: the bounded TTL cache (utils/cache), the fetch orchestrator   *)
(* (services/github/scraper) that sits behind it, the listing extractor,   *)
(* the filter (services/github/filter), the AI enrichment (services/ai)    *)
(* and the trending command (cli/commands/trending).                       *)
(*                                                                         *)
(* JavaScript values are tagged records so that values of different        *)
(* shapes can be compared: null is [null |-> TRUE], a string s is          *)
(* [string |-> s], an array a is [array |-> a].                            *)
(***************************************************************************)
EXTENDS Integers, Sequences, FiniteSets, TLC

VARIABLES
    now,          \* Date.now(), in milliseconds
    memoryCache,  \* the module-level Map<string, CacheItem>, in insertion order
    enabled,      \* Cache.enabled of the exported instance `cache`
    maxSize,      \* Cache.maxSize of the exported instance `cache`
    config,       \* the loaded configuration (getConfig())
    last,         \* the most recent step; for a call of a Cache method or of
                  \* a pure function, its arguments, its locals and what it
                  \* returned
    setLog,       \* per key, the time and ttlSeconds of the latest Cache.set
                  \* that was not a no-op (what a spy on cache.set records)
    calls,        \* the invocations of getTrendingRepos: where each one is,
                  \* its locals, and what spies on axios.get, cacheSet and
                  \* parseGitHubTrendingHtml counted during it
    enrich,       \* the invocation of enrichWithAI: its input, the promise of
                  \* each record, and what spies on the prompt builder and on
                  \* generateText counted
    command       \* the run of the trending command: its options, where it
                  \* is, what it printed and its exit code

vars == <<now, memoryCache, enabled, maxSize, config, last, setLog, calls,
          enrich, command>>

----------------------------------------------------------------------------
(* Bounds of the model *)

\* The maxSize the exported instance is constructed with. The code constructs
\* it with DEFAULT_MAX_SIZE (100); the class takes any maxSize, and the model
\* scales it down so that eviction is reached.
MaxSize == 2

\* Date.now() never exceeds this while the cache is driven directly.
MaxCacheTime == 2200

\* How many times getTrendingRepos is invoked.
MaxCalls == 2

\* The most article.Box-row elements of a page given to an extractor.
MaxArticles == 3

\* The most records of a sequence given to filterRepositories.
MaxRepos == 3

\* The largest limit given to filterRepositories.
MaxLimit == 3

\* Date.now() never exceeds this while the orchestrator runs.
MaxTime == 3600001

(* Program constants *)

DEFAULT_TTL == 3600

\* cacheSet(cacheKey, repositories, 3600)
TRENDING_TTL == 3600

----------------------------------------------------------------------------
(* JavaScript values *)

Null == [null |-> TRUE]

Str(s) == [string |-> s]

Arr(a) == [array |-> a]

Obj(o) == [object |-> o]

\* Fault injection: a hit is taken only for a non-empty array (if (cachedData.length)).
TruthyNonEmpty(v) ==
    /\ "null" \notin DOMAIN v
    /\ ~("string" \in DOMAIN v /\ v.string = "")
    /\ ~("array" \in DOMAIN v /\ v.array = <<>>)

\* if (v): null and the empty string are falsy; arrays and objects are truthy.
Truthy(v) ==
    /\ "null" \notin DOMAIN v
    /\ ~("string" \in DOMAIN v /\ v.string = "")

----------------------------------------------------------------------------
(* Map<string, CacheItem>: a sequence of [key, data, expiry] in insertion   *)
(* order, with at most one entry per key.                                   *)

MapKeys(m) == {m[i].key : i \in 1..Len(m)}

MapHas(m, key) == key \in MapKeys(m)

MapIndex(m, key) == CHOOSE i \in 1..Len(m) : m[i].key = key

\* Map.get: the item, or undefined (falsy; modelled as Null).
MapGet(m, key) ==
    IF MapHas(m, key)
    THEN [data |-> m[MapIndex(m, key)].data, expiry |-> m[MapIndex(m, key)].expiry]
    ELSE Null

\* Fault injection: a key that is present keeps its item.
MapSetKeepFirst(m, key, item) ==
    IF key \in {m[i].key : i \in 1..Len(m)} THEN m
    ELSE Append(m, [key |-> key, data |-> item.data, expiry |-> item.expiry])

\* Map.set: an existing key keeps its place, a new key goes last.
MapSet(m, key, item) ==
    LET e == [key |-> key, data |-> item.data, expiry |-> item.expiry]
    IN  IF MapHas(m, key)
        THEN [m EXCEPT ![MapIndex(m, key)] = e]
        ELSE Append(m, e)

\* Map.delete
MapDelete(m, key) == SelectSeq(m, LAMBDA e : e.key # key)

----------------------------------------------------------------------------
(* class Cache *)

\* Fault injection: the comparison is reversed.
IsExpiredReversed(item, t) == t < item.expiry

\* Date.now() > item.expiry
IsExpired(item, t) == t > item.expiry

\* Cache.get: the value returned.
get(m, key, t) ==
    IF ~enabled THEN Null
    ELSE LET item == MapGet(m, key)
         IN  IF item = Null THEN Null
             ELSE IF IsExpired(item, t) THEN Null
             ELSE item.data

\* Fault injection: a hit renews the entry (sliding expiration).
getTableSliding(m, key, t) ==
    [i \in 1..Len(m) |->
        IF m[i].key = key /\ t <= m[i].expiry
        THEN [m[i] EXCEPT !.expiry = t + DEFAULT_TTL * 1000]
        ELSE m[i]]

\* Cache.get: the table it leaves.
getTable(m, key, t) ==
    IF ~enabled THEN m
    ELSE LET item == MapGet(m, key)
         IN  IF item = Null THEN m
             ELSE IF IsExpired(item, t) THEN MapDelete(m, key)
             ELSE m

\* Array.prototype.sort((a, b) => a[1].expiry - b[1].expiry): a stable sort,
\* done here by inserting each entry after the entries that are not later.
RECURSIVE SortByExpiry(_)
SortByExpiry(entries) ==
    IF entries = <<>> THEN <<>>
    ELSE LET n      == Len(entries)
             sorted == SortByExpiry(SubSeq(entries, 1, n - 1))
             x      == entries[n]
             before == SelectSeq(sorted, LAMBDA e : e.expiry <= x.expiry)
             after  == SelectSeq(sorted, LAMBDA e : e.expiry > x.expiry)
         IN  before \o <<x>> \o after

\* Fault injection: prune deletes one entry too few.
DeleteCountShort(m) == Len(m) - maxSize - 1

\* How many entries prune deletes.
DeleteCount(m) == Len(m) - maxSize

\* Fault injection: prune deletes the oldest insertions, without sorting by expiry.
PruneVictimsOldest(m) == {m[i].key : i \in 1..(Len(m) - maxSize)}

\* The keys prune deletes: entries[0 .. deleteCount-1] of the sorted entries.
PruneVictims(m) ==
    LET entries == SortByExpiry(m)
    IN  {entries[i].key : i \in 1..DeleteCount(m)}

\* Cache.prune
prune(m) ==
    IF Len(m) <= maxSize THEN m
    ELSE SelectSeq(m, LAMBDA e : e.key \notin PruneVictims(m))

\* Fault injection: ttlSeconds is taken as minutes.
ExpiryMinutes(t, ttlSeconds) == t + ttlSeconds * 60 * 1000

\* Fault injection: ttlSeconds is taken as milliseconds.
ExpiryMillis(t, ttlSeconds) == t + ttlSeconds

\* const expiry = Date.now() + ttlSeconds * 1000
Expiry(t, ttlSeconds) == t + ttlSeconds * 1000

\* Cache.set: the table it leaves.
set(m, key, data, ttlSeconds, t) ==
    IF ~enabled THEN m
    ELSE LET saved == MapSet(m, key, [data |-> data, expiry |-> Expiry(t, ttlSeconds)])
         IN  IF Len(saved) > maxSize THEN prune(saved) ELSE saved

\* memoryCache.size as Cache.set reads it after memoryCache.set (0 when the
\* cache is disabled and nothing was saved).
sizeAfterSave(m, key) ==
    IF ~enabled THEN 0
    ELSE IF MapHas(m, key) THEN Len(m) ELSE Len(m) + 1

\* The spy's record of a Cache.set that got past the enabled check.
logSet(log, key, ttlSeconds, t) ==
    IF ~enabled THEN log
    ELSE {e \in log : e.key # key} \cup {[key |-> key, at |-> t, ttl |-> ttlSeconds]}

\* Cache.clear
clear(m) == <<>>

----------------------------------------------------------------------------
(* The configuration *)

\* defaultConfig.cache
DefaultCacheConfig == [enabled |-> TRUE, ttl |-> DEFAULT_TTL, maxSize |-> MaxSize]

\* defaultConfig.ai (defaultModel and summaryLength are left out): there is
\* no apiKey by default.
DefaultAiConfig == [enabled |-> FALSE]

\* defaultConfig.github.defaultLimit
DEFAULT_LIMIT == 25

\* defaultConfig.github
DefaultGithubConfig == [defaultLimit |-> DEFAULT_LIMIT, defaultPeriod |-> "daily"]

\* defaultConfig.output (colorEnabled is left out)
DefaultOutputConfig == [defaultFormat |-> "table"]

\* ConfigManager.mergeConfig, for a user's file that sets cache.enabled.
mergeConfig(userEnabled) ==
    [ai     |-> DefaultAiConfig,
     cache  |-> [DefaultCacheConfig EXCEPT !.enabled = userEnabled],
     github |-> DefaultGithubConfig,
     output |-> DefaultOutputConfig]

\* ConfigManager.mergeConfig, for a user's file that has an ai section:
\* mergedConfig.ai = { ...mergedConfig.ai, ...userConfig.ai }
mergeAiConfig(merged, userAi) == [merged EXCEPT !.ai = userAi @@ merged.ai]

----------------------------------------------------------------------------
(* Inputs of the cache operations *)

Keys == {"k1", "k2", "k3"}

Values == {Str("v1"), Str("v2")}

Ttls == {1, 2}

CacheTickSteps == {1000, 1100}

----------------------------------------------------------------------------
(* Strings *)

\* s.substring(from), from counted from 0.
substring(s, from) == SubSeq(s, from + 1, Len(s))

\* s.includes(part)
includes(s, part) ==
    \E i \in 1..(Len(s) - Len(part) + 1) : SubSeq(s, i, i + Len(part) - 1) = part

\* s.split(sep), for a separator of one character.
RECURSIVE split(_, _)
split(s, sep) ==
    LET at == {i \in 1..Len(s) : SubSeq(s, i, i) = sep}
    IN  IF at = {} THEN <<s>>
        ELSE LET i == CHOOSE i \in at : \A j \in at : i <= j
             IN  <<SubSeq(s, 1, i - 1)>> \o split(SubSeq(s, i + 1, Len(s)), sep)

\* encodeURIComponent of one character: the unreserved characters stay, the
\* others that occur in the model's inputs are percent-encoded.
encodeChar(ch) ==
    CASE ch = "+" -> "%2B"
      [] ch = "#" -> "%23"
      [] ch = " " -> "%20"
      [] ch = "/" -> "%2F"
      [] OTHER    -> ch

RECURSIVE encodeURIComponent(_)
encodeURIComponent(s) ==
    IF Len(s) = 0 THEN ""
    ELSE encodeChar(SubSeq(s, 1, 1)) \o encodeURIComponent(SubSeq(s, 2, Len(s)))

\* The character of s at position i (from 1), '' past either end.
charAt(s, i) == IF i >= 1 /\ i <= Len(s) THEN SubSeq(s, i, i) ELSE ""

\* Does lit occur in s at position i (from 1)?
startsWithAt(s, i, lit) ==
    /\ i >= 1
    /\ i + Len(lit) - 1 <= Len(s)
    /\ SubSeq(s, i, i + Len(lit) - 1) = lit

\* s.indexOf(part) + 1: the first position of part in s, 0 when there is none.
indexOf(s, part) ==
    LET at == {i \in 1..(Len(s) + 1) : startsWithAt(s, i, part)}
    IN  IF at = {} THEN 0 ELSE CHOOSE i \in at : \A j \in at : i <= j

\* s.replace(part, with) for a string pattern: the first occurrence only.
replace(s, part, with) ==
    LET i == indexOf(s, part)
    IN  IF i = 0 THEN s
        ELSE SubSeq(s, 1, i - 1) \o with \o SubSeq(s, i + Len(part), Len(s))

\* s.replace(/,/g, '')
RECURSIVE removeCommas(_)
removeCommas(s) ==
    IF Len(s) = 0 THEN ""
    ELSE (IF charAt(s, 1) = "," THEN "" ELSE charAt(s, 1)) \o removeCommas(SubSeq(s, 2, Len(s)))

\* The white space of the model's inputs is the space character.
IsSpace(ch) == ch = " "

RECURSIVE trimStart(_)
trimStart(s) == IF IsSpace(charAt(s, 1)) THEN trimStart(SubSeq(s, 2, Len(s))) ELSE s

RECURSIVE trimEnd(_)
trimEnd(s) == IF IsSpace(charAt(s, Len(s))) THEN trimEnd(SubSeq(s, 1, Len(s) - 1)) ELSE s

\* s.trim()
trim(s) == trimEnd(trimStart(s))

Upper == "ABCDEFGHIJKLMNOPQRSTUVWXYZ"

Lower == "abcdefghijklmnopqrstuvwxyz"

UpperChars == {charAt(Upper, i) : i \in 1..Len(Upper)}

lowerChar(ch) ==
    IF ch \in UpperChars
    THEN charAt(Lower, CHOOSE i \in 1..Len(Upper) : charAt(Upper, i) = ch)
    ELSE ch

\* s.toLowerCase()
RECURSIVE toLowerCase(_)
toLowerCase(s) ==
    IF Len(s) = 0 THEN ""
    ELSE lowerChar(charAt(s, 1)) \o toLowerCase(SubSeq(s, 2, Len(s)))

----------------------------------------------------------------------------
(* Numbers. A JavaScript number is NaN or a decimal num / 10^frac, kept     *)
(* normalised (num ends in 0 only when frac = 0), so an integer is a        *)
(* number with frac = 0. Products are exact decimals: the binary rounding   *)
(* of IEEE 754 doubles is not represented.                                  *)

NaN == [nan |-> TRUE]

RECURSIVE Decimal(_, _)
Decimal(n, frac) ==
    IF frac > 0 /\ n % 10 = 0 THEN Decimal(n \div 10, frac - 1)
    ELSE [num |-> n, frac |-> frac]

Whole(n) == Decimal(n, 0)

IsNaN(x) == "nan" \in DOMAIN x

RECURSIVE Pow10(_)
Pow10(k) == IF k = 0 THEN 1 ELSE 10 * Pow10(k - 1)

\* x * 1000
timesThousand(x) ==
    IF IsNaN(x) THEN NaN
    ELSE IF x.frac >= 3 THEN Decimal(x.num, x.frac - 3)
    ELSE Decimal(x.num * Pow10(3 - x.frac), 0)

\* x || 0: NaN and 0 are falsy.
orZero(x) == IF IsNaN(x) \/ x.num = 0 THEN Whole(0) ELSE x

DigitChars == "0123456789"

IsDigit(ch) == \E i \in 1..Len(DigitChars) : charAt(DigitChars, i) = ch

digitValue(ch) == (CHOOSE i \in 1..Len(DigitChars) : charAt(DigitChars, i) = ch) - 1

\* The position just past the run of digits of s that starts at i.
RECURSIVE digitsEnd(_, _)
digitsEnd(s, i) == IF IsDigit(charAt(s, i)) THEN digitsEnd(s, i + 1) ELSE i

\* The value of the digits of s at positions i .. j - 1.
RECURSIVE digitsValue(_, _, _)
digitsValue(s, i, j) ==
    IF i >= j THEN 0 ELSE digitsValue(s, i, j - 1) * 10 + digitValue(charAt(s, j - 1))

\* parseInt(s, 10): leading white space, a sign, then the longest run of
\* digits; NaN when there is no digit.
parseInt(s) ==
    LET t    == trimStart(s)
        from == IF charAt(t, 1) \in {"-", "+"} THEN 2 ELSE 1
        to   == digitsEnd(t, from)
        sign == IF charAt(t, 1) = "-" THEN -1 ELSE 1
    IN  IF to = from THEN NaN ELSE Whole(sign * digitsValue(t, from, to))

\* parseFloat(s): leading white space, a sign, digits, and a fraction when a
\* point follows; NaN when there is no digit. (Exponents and Infinity do not
\* occur in the model's inputs.)
parseFloat(s) ==
    LET t       == trimStart(s)
        from    == IF charAt(t, 1) \in {"-", "+"} THEN 2 ELSE 1
        intEnd  == digitsEnd(t, from)
        fracEnd == IF charAt(t, intEnd) = "." THEN digitsEnd(t, intEnd + 1) ELSE intEnd
        fracLen == IF fracEnd > intEnd THEN fracEnd - intEnd - 1 ELSE 0
        sign    == IF charAt(t, 1) = "-" THEN -1 ELSE 1
    IN  IF intEnd = from /\ fracLen = 0 THEN NaN
        ELSE Decimal(sign * (digitsValue(t, from, intEnd) * Pow10(fracLen)
                             + digitsValue(t, intEnd + 1, fracEnd)), fracLen)

----------------------------------------------------------------------------
(* services/github/scraper *)

\* A trending page is the sequence of its article.Box-row elements in
\* document order. An article is a record: href when its title link h2.h3 a
\* has one, and the text of its description, language, stargazers link,
\* forks link and period-gain span where it has them.

\* titleElement.attr('href') || ''
relativeUrlOf(article) == IF "href" \in DOMAIN article THEN article.href ELSE ""

\* $(element).find(selector).text().trim(): '' when nothing is selected.
textOf(article, field) == IF field \in DOMAIN article THEN trim(article[field]) ELSE ""

\* The position just past the run of white space of s that starts at i.
RECURSIVE spacesEnd(_, _)
spacesEnd(s, i) == IF IsSpace(charAt(s, i)) THEN spacesEnd(s, i + 1) ELSE i

\* Where a match of   first \s+ second   that starts at i ends (the position
\* just past it), 0 when there is no match at i.
twoWordsEnd(s, i, first, second) ==
    LET j == i + Len(first)
        k == spacesEnd(s, j)
    IN  IF startsWithAt(s, i, first) /\ k > j /\ startsWithAt(s, k, second)
        THEN k + Len(second) ELSE 0

\* Where a match of /\s+stars\s+today|this\s+week|this\s+month/ that starts
\* at i ends, 0 when there is none: the alternatives in their order.
periodPhraseEnd(s, i) ==
    LET a     == spacesEnd(s, i)
        today == IF a > i THEN twoWordsEnd(s, a, "stars", "today") ELSE 0
        week  == twoWordsEnd(s, i, "this", "week")
    IN  IF today > 0 THEN today
        ELSE IF week > 0 THEN week
        ELSE twoWordsEnd(s, i, "this", "month")

\* starsInPeriodText.replace(/\s+stars\s+today|this\s+week|this\s+month/, '')
removePeriodPhrase(s) ==
    LET at == {i \in 1..Len(s) : periodPhraseEnd(s, i) > 0}
    IN  IF at = {} THEN s
        ELSE LET i == CHOOSE i \in at : \A j \in at : i <= j
             IN  SubSeq(s, 1, i - 1) \o SubSeq(s, periodPhraseEnd(s, i), Len(s))

\* parseNumber
parseNumber(text) ==
    IF text = "" THEN Whole(0)
    ELSE IF includes(text, "k") THEN timesThousand(parseFloat(replace(text, "k", "")))
    ELSE orZero(parseInt(removeCommas(text)))

\* Fault injection: ranks are counted from 0.
rankOfZeroBased(index) == index

\* rank: index + 1
rankOf(index) == index + 1

\* The record parseGitHubTrendingHtml pushes for the article at a 0-based
\* index. const [author, name] = relativeUrl.substring(1).split('/'): name is
\* undefined (no field here) when the split has one part. languageColor and
\* avatar are left out.
repositoryOf(article, index) ==
    LET relativeUrl == relativeUrlOf(article)
        parts       == split(substring(relativeUrl, 1), "/")
        base        == [author        |-> parts[1],
                        rank          |-> rankOf(index),
                        url           |-> "https://github.com" \o relativeUrl,
                        description   |-> textOf(article, "description"),
                        language      |-> textOf(article, "language"),
                        stars         |-> parseNumber(textOf(article, "stars")),
                        forks         |-> parseNumber(textOf(article, "forks")),
                        starsInPeriod |-> parseNumber(removePeriodPhrase(
                                              textOf(article, "starsInPeriod")))]
    IN  IF Len(parts) >= 2 THEN [name |-> parts[2]] @@ base ELSE base

\* parseGitHubTrendingHtml
parseGitHubTrendingHtml(html) ==
    [i \in 1..Len(html) |-> repositoryOf(html[i], i - 1)]

----------------------------------------------------------------------------
(* TrendService.parseHTML, the extractor of the service class *)

\* const { limit = 25, topics } = options
PARSE_DEFAULT_LIMIT == 25

limitOf(options) == IF "limit" \in DOMAIN options THEN options.limit ELSE PARSE_DEFAULT_LIMIT

\* topics && topics.length > 0
hasTopics(options) == "topics" \in DOMAIN options /\ Len(options.topics) > 0

IsDigitOrComma(ch) == IsDigit(ch) \/ ch = ","

RECURSIVE digitsOrCommasEnd(_, _)
digitsOrCommasEnd(s, i) ==
    IF IsDigitOrComma(charAt(s, i)) THEN digitsOrCommasEnd(s, i + 1) ELSE i

\* extractNumber: the first run of digits and commas, parsed without its
\* commas; 0 when there is no such run.
extractNumber(str) ==
    LET at == {i \in 1..Len(str) : IsDigitOrComma(charAt(str, i))}
    IN  IF at = {} THEN Whole(0)
        ELSE LET i == CHOOSE i \in at : \A j \in at : i <= j
             IN  parseInt(removeCommas(SubSeq(str, i, digitsOrCommasEnd(str, i) - 1)))

\* topics.some(topic => description.toLowerCase().includes(topic.toLowerCase())
\*                    || name.toLowerCase().includes(topic.toLowerCase()))
\* from the i-th topic on: "true", "false", or "throw" when name.toLowerCase()
\* is evaluated with name undefined (pathParts has one part).
RECURSIVE someTopicMatches(_, _, _, _)
someTopicMatches(topics, i, description, pathParts) ==
    IF i > Len(topics) THEN "false"
    ELSE IF includes(toLowerCase(description), toLowerCase(topics[i])) THEN "true"
    ELSE IF Len(pathParts) < 2 THEN "throw"
    ELSE IF includes(toLowerCase(pathParts[2]), toLowerCase(topics[i])) THEN "true"
    ELSE someTopicMatches(topics, i + 1, description, pathParts)

\* The record parseHTML pushes for the article at a 0-based index.
serviceRepositoryOf(article, index) ==
    LET relativePath == substring(relativeUrlOf(article), 1)
        pathParts    == split(relativePath, "/")
        base         == [author        |-> pathParts[1],
                         rank          |-> rankOf(index),
                         url           |-> "https://github.com/" \o relativePath,
                         description   |-> textOf(article, "description"),
                         language      |-> textOf(article, "language"),
                         stars         |-> extractNumber(textOf(article, "stars")),
                         forks         |-> extractNumber(textOf(article, "forks")),
                         starsInPeriod |-> extractNumber(textOf(article, "starsInPeriod"))]
    IN  IF Len(pathParts) >= 2 THEN [name |-> pathParts[2]] @@ base ELSE base

\* The .each callback from the article at position i (from 1) on, with the
\* records pushed so far: the array parseHTML returns, or the TypeError that
\* escapes it.
RECURSIVE eachArticle(_, _, _, _)
eachArticle(html, options, i, repositories) ==
    IF i > Len(html) \/ Len(repositories) >= limitOf(options) THEN Arr(repositories)
    ELSE LET relativePath == substring(relativeUrlOf(html[i]), 1)
             matched      == IF hasTopics(options)
                             THEN someTopicMatches(options.topics, 1,
                                      textOf(html[i], "description"),
                                      split(relativePath, "/"))
                             ELSE "true"
         IN  IF relativePath = "" THEN eachArticle(html, options, i + 1, repositories)
             ELSE IF matched = "throw" THEN [throws |-> "TypeError"]
             ELSE IF matched = "false" THEN eachArticle(html, options, i + 1, repositories)
             ELSE eachArticle(html, options, i + 1,
                      Append(repositories, serviceRepositoryOf(html[i], i - 1)))

\* TrendService.parseHTML
parseHTML(html, options) == eachArticle(html, options, 1, <<>>)

----------------------------------------------------------------------------
(* services/github/filter *)

\* Fault injection: the slice keeps one record more.
sliceOneMore(a, end) ==
    SubSeq(a, 1, IF end + 1 < Len(a) THEN end + 1 ELSE Len(a))

\* a.slice(0, end) for an integer end: a negative end counts from the back.
slice(a, end) ==
    LET to == IF end < 0 THEN Len(a) + end ELSE end
    IN  SubSeq(a, 1, IF to < Len(a) THEN to ELSE Len(a))

\* filteredRepos.slice(0, options.limit): an undefined limit keeps all.
sliceToLimit(a, options) ==
    IF "limit" \in DOMAIN options THEN slice(a, options.limit) ELSE a

\* Fault injection: every requested topic must be among the record's topics.
matchesEveryTopic(repo, topics) ==
    /\ "topics" \in DOMAIN repo
    /\ Len(repo.topics) > 0
    /\ \A i \in 1..Len(topics) : \E j \in 1..Len(repo.topics) :
            toLowerCase(repo.topics[j]) = toLowerCase(topics[i])

\* The predicate of the topic-list filter: repo.topics is non-empty and some
\* requested topic equals, lower-cased, some topic of the record.
matchesTopicList(repo, topics) ==
    /\ "topics" \in DOMAIN repo
    /\ Len(repo.topics) > 0
    /\ \E i \in 1..Len(topics) : \E j \in 1..Len(repo.topics) :
            toLowerCase(repo.topics[j]) = toLowerCase(topics[i])

\* filterRepositories, matching on the record's own topic list.
filterRepositories(repositories, options) ==
    sliceToLimit(
        IF hasTopics(options)
        THEN SelectSeq(repositories, LAMBDA repo : matchesTopicList(repo, options.topics))
        ELSE repositories,
        options)

\* `${x}` of a field: 'undefined' when the record has no such field.
templateOf(repo, field) == IF field \in DOMAIN repo THEN repo[field] ELSE "undefined"

\* repo[field] || ''
orEmpty(repo, field) == IF field \in DOMAIN repo THEN repo[field] ELSE ""

\* `${repo.name} ${repo.description || ''} ${repo.language || ''}`.toLowerCase()
repoText(repo) ==
    toLowerCase(templateOf(repo, "name") \o " " \o orEmpty(repo, "description")
                    \o " " \o orEmpty(repo, "language"))

\* The predicate of the text filter: some requested topic occurs, lower-cased,
\* in repoText.
matchesText(repo, topics) ==
    \E i \in 1..Len(topics) : includes(repoText(repo), toLowerCase(topics[i]))

\* filterRepositories, matching on name, description and language.
filterRepositoriesText(repositories, options) ==
    sliceToLimit(
        IF hasTopics(options)
        THEN SelectSeq(repositories, LAMBDA repo : matchesText(repo, options.topics))
        ELSE repositories,
        options)

----------------------------------------------------------------------------
(* services/ai *)

\* The first position of part in s at or after from, 0 when there is none.
indexOfFrom(s, part, from) ==
    LET at == {i \in from..(Len(s) + 1) : startsWithAt(s, i, part)}
    IN  IF at = {} THEN 0 ELSE CHOOSE i \in at : \A j \in at : i <= j

\* The fence of a Markdown code block is three backticks; a string of this
\* module cannot hold a backtick, and the apostrophe stands for it.
JsonFence == "'''json\n"

FenceEnd == "\n'''"

\* text.match(/<fence>json\n([\s\S]*?)\n<fence>/): the capture of the
\* leftmost match, the shortest possible; null when there is no match.
fencedMatch(text) ==
    LET open  == indexOf(text, JsonFence)
        start == open + Len(JsonFence)
        close == IF open = 0 THEN 0 ELSE indexOfFrom(text, FenceEnd, start)
    IN  IF close = 0 THEN Null ELSE [capture |-> SubSeq(text, start, close - 1)]

\* text.match(/({[\s\S]*?})/): from the first '{' to the first '}' after it.
bracedMatch(text) ==
    LET open  == indexOf(text, "{")
        close == IF open = 0 THEN 0 ELSE indexOfFrom(text, "}", open + 1)
    IN  IF close = 0 THEN Null ELSE [capture |-> SubSeq(text, open, close)]

SyntaxError == [throws |-> "SyntaxError"]

\* JSON.parse, for the texts that occur in the model's responses: the object
\* of a document as a record of tagged values, a SyntaxError for any other
\* text.
jsonParse(text) ==
    CASE text = "{\"aiSummary\":\"s\"}" -> [aiSummary |-> Str("s")]
      [] text = "{\"category\":\"web\"}" -> [category |-> Str("web")]
      [] text = "{\"stars\":0}"          -> [stars |-> Whole(0)]
      [] text = "{\"meta\":{\"x\":1},\"aiSummary\":\"s\"}"
            -> [aiSummary |-> Str("s"), meta |-> Obj([x |-> Whole(1)])]
      [] text = "[]"                    -> Arr(<<>>)
      [] OTHER                          -> SyntaxError

\* Array.isArray
IsArray(v) == "array" \in DOMAIN v

\* What the catch block of parseAIResponse returns.
ParseFailure ==
    [aiSummary |-> Str("Could not parse AI response"),
     category  |-> Arr(<<>>),
     keyPoints |-> Arr(<<>>)]

\* parseAIResponse
parseAIResponse(text) ==
    LET fenced    == fencedMatch(text)
        jsonMatch == IF fenced # Null THEN fenced ELSE bracedMatch(text)
        result    == IF jsonMatch # Null /\ jsonMatch.capture # ""
                     THEN jsonParse(jsonMatch.capture)
                     ELSE jsonParse(trim(text))
    IN  IF result = SyntaxError THEN ParseFailure
        ELSE IF "category" \in DOMAIN result /\ Truthy(result.category)
                    /\ ~IsArray(result.category)
        THEN [result EXCEPT !.category = Arr(<<result.category>>)]
        ELSE result

\* { ...repo, ...enrichedData }
spread(repo, enrichedData) == enrichedData @@ repo

\* !config.ai?.apiKey is false
hasApiKey(cfg) == "apiKey" \in DOMAIN cfg.ai /\ cfg.ai.apiKey # ""

\* What createAIProvider throws when there is no key.
ApiKeyError == "AI API Key not configured"

\* createRepoPromptWithLength: the line of the prompt that names the
\* repository.
createRepoPromptWithLength(repo) ==
    "Repository: " \o templateOf(repo, "author") \o "/" \o templateOf(repo, "name")

\* The promise of the map callback for the record at position i, right after
\* the map: generateAIText has thrown from createAIProvider and the callback
\* has caught it, or generateText is awaited.
promiseAfterMap(cfg, repositories, i) ==
    IF hasApiKey(cfg) THEN [state |-> "pending"]
    ELSE [state |-> "fulfilled", value |-> repositories[i], error |-> ApiKeyError]

\* Fault injection: the values are taken in the order of completion.
promiseAllInCompletionOrder(e) ==
    [i \in 1..Len(e.promises) |->
        IF i <= Len(e.order) THEN e.promises[e.order[i]].value ELSE e.promises[i].value]

\* Promise.all(enrichPromises): the values in the order of the promises.
promiseAll(e) == [i \in 1..Len(e.promises) |-> e.promises[i].value]

----------------------------------------------------------------------------
(* getTrendingRepos *)

\* const { language, since = 'daily' } = options
sinceOf(options) == IF "since" \in DOMAIN options THEN options.since ELSE "daily"

\* if (language): undefined and '' are falsy.
hasLanguage(options) == "language" \in DOMAIN options /\ options.language # ""

\* Fault injection: the period is left out of the key.
trendingCacheKeyNoPeriod(options) ==
    "trending:" \o (IF hasLanguage(options) THEN options.language ELSE "all")

\* `trending:${language || 'all'}:${since}`
trendingCacheKey(options) ==
    "trending:" \o (IF hasLanguage(options) THEN options.language ELSE "all")
        \o ":" \o sinceOf(options)

\* The request URL.
trendingUrl(options) ==
    "https://github.com/trending"
        \o (IF hasLanguage(options) THEN "/" \o encodeURIComponent(options.language) ELSE "")
        \o "?since=" \o sinceOf(options)

\* error instanceof Error ? error.message : String(error)
errorText(error) == IF error.isError THEN error.message ELSE error.value

\* The prefix of the failure getTrendingRepos throws. The source's text is
\* Chinese for "failed to get trending repositories".
TrendingFailurePrefix == "getTrendingRepos failed: "

\* Fault injection: the original error's text is dropped.
wrapErrorNoCause(error) == TrendingFailurePrefix \o "request failed"

\* new Error(`<prefix>: ${...}`)
wrapError(error) == TrendingFailurePrefix \o errorText(error)

----------------------------------------------------------------------------
(* services/metadata/extractor. A page is a record of what the selectors   *)
(* of parseMetadata find in it: the text of <title>, the content or href    *)
(* attribute of each meta and link element (absent when the page has no     *)
(* such element), the texts of the content area (main) or, for a page       *)
(* without one, of its paragraphs, and the texts of its tag links. A        *)
(* property assigned undefined is an absent field of the record.            *)

\* $(selector).attr(...) or .text(): '' stands for undefined as well, both
\* being falsy where the value is used.
attr(page, selector) == IF selector \in DOMAIN page THEN page[selector] ELSE ""

\* $(a).attr('content') || $(b).attr('content')
firstOf(page, a, b) == IF attr(page, a) # "" THEN attr(page, a) ELSE attr(page, b)

\* The texts found by a selector that matches any number of elements.
textsOf(page, selector) == IF selector \in DOMAIN page THEN page[selector] ELSE <<>>

\* metadata[name] = value, left undefined when there is no value.
withField(metadata, name, value, present) ==
    IF present THEN (name :> value) @@ metadata ELSE metadata

\* The origin of an absolute URL: scheme, "://" and authority.
originOf(url) ==
    LET authority == indexOf(url, "://") + 3
        path      == indexOfFrom(url, "/", authority)
    IN  IF path = 0 THEN url ELSE SubSeq(url, 1, path - 1)

\* The URL up to and including the last "/" of its path ("/" is the path of
\* a URL without one).
RECURSIVE lastSlash(_, _)
lastSlash(s, i) == IF i = 0 \/ charAt(s, i) = "/" THEN i ELSE lastSlash(s, i - 1)

directoryOf(url) ==
    LET origin == originOf(url)
    IN  IF origin = url THEN url \o "/" ELSE SubSeq(url, 1, lastSlash(url, Len(url)))

\* new URL(iconLink, url).toString(), for a link that is a path from the
\* root ("/favicon.ico") or a path relative to the page ("favicon.ico").
resolveUrl(iconLink, url) ==
    IF charAt(iconLink, 1) = "/" THEN originOf(url) \o iconLink
    ELSE directoryOf(url) \o iconLink

\* iconLink.startsWith('http') ? iconLink : new URL(iconLink, url).toString()
iconOf(iconLink, url) ==
    IF startsWithAt(iconLink, 1, "http") THEN iconLink ELSE resolveUrl(iconLink, url)

\* keywords.split(',').map((k) => k.trim())
keywordsOf(keywords) ==
    LET parts == split(keywords, ",")
    IN  [i \in 1..Len(parts) |-> trim(parts[i])]

\* The trimmed texts that are not empty.
trimmedTexts(texts) ==
    SelectSeq([i \in 1..Len(texts) |-> trim(texts[i])], LAMBDA t : t # "")

\* contentText.join(' ')
RECURSIVE joinSpace(_)
joinSpace(texts) ==
    IF Len(texts) = 0 THEN ""
    ELSE IF Len(texts) = 1 THEN texts[1]
    ELSE texts[1] \o " " \o joinSpace(Tail(texts))

MEANINGFUL_LENGTH == 40

PREVIEW_LENGTH == 5000

\* extractDeepMetadata: the texts pushed to contentText.
contentTextOf(page) ==
    IF "main" \in DOMAIN page THEN trimmedTexts(page.main)
    ELSE SelectSeq(trimmedTexts(textsOf(page, "paragraphs")),
                   LAMBDA t : Len(t) > MEANINGFUL_LENGTH)

\* contentText.join(' ').slice(0, 5000)
contentPreviewOf(page) ==
    LET text == joinSpace(contentTextOf(page))
    IN  SubSeq(text, 1, IF Len(text) < PREVIEW_LENGTH THEN Len(text) ELSE PREVIEW_LENGTH)

\* extractDeepMetadata
extractDeepMetadata(page, metadata) ==
    LET tags    == trimmedTexts(textsOf(page, "tags"))
        preview == [contentPreview |-> contentPreviewOf(page)] @@ metadata
    IN  withField(preview, "tags", tags, Len(tags) > 0)

\* Fault injection: the deep extraction is run at every depth.
isDeepAlways(options) == TRUE

\* options.depth === 'deep'
isDeep(options) == options.depth = "deep"

\* parseMetadata
parseMetadata(url, page, options) ==
    LET basic     == [url |-> url,
                      title |-> trim(attr(page, "title")),
                      description |-> firstOf(page, "description", "ogDescription")]
        author    == firstOf(page, "author", "articleAuthor")
        a         == withField(basic, "author", author, author # "")
        publisher == attr(page, "siteName")
        b         == withField(a, "publisher", publisher, publisher # "")
        type      == attr(page, "ogType")
        c         == withField(b, "type", type, type # "")
        image     == firstOf(page, "ogImage", "twitterImage")
        d         == withField(c, "image", image, options.includeImages /\ image # "")
        iconLink  == firstOf(page, "icon", "shortcutIcon")
        e         == withField(d, "icon", iconOf(iconLink, url),
                               options.includeImages /\ iconLink # "")
        keywords  == attr(page, "keywords")
        f         == withField(e, "keywords", keywordsOf(keywords), keywords # "")
        language  == attr(page, "lang")
        g         == withField(f, "language", language, language # "")
        published == attr(page, "publishedTime")
        h         == withField(g, "published", [date |-> published], published # "")
        modified  == attr(page, "modifiedTime")
        k         == withField(h, "modified", [date |-> modified], modified # "")
    IN  IF isDeep(options) THEN extractDeepMetadata(page, k) ELSE k

\* `metadata:${url}:${options.depth}`
metadataCacheKey(url, options) == "metadata:" \o url \o ":" \o options.depth

METADATA_TTL == 3600

DEFAULT_TIMEOUT == 30000

\* getPageContent: the message of what it throws. The source's text is
\* Chinese for "failed to get content".
contentError(error) ==
    IF "status" \in DOMAIN error
    THEN "getPageContent failed: HTTP status " \o error.status
    ELSE "getPageContent failed: " \o error.message

\* extractMetadata: the message of what its catch block throws. The source's
\* text is Chinese for "failed to extract metadata".
metadataError(message) == "extractMetadata failed: " \o message

\* index: urlMetadata builds the extraction options from partial ones.
extractionOptionsOf(options) ==
    [depth |-> IF "depth" \in DOMAIN options /\ options.depth # ""
               THEN options.depth ELSE "normal",
     includeImages |-> IF "includeImages" \in DOMAIN options
                       THEN options.includeImages ELSE TRUE,
     timeout |-> IF "timeout" \in DOMAIN options /\ options.timeout # 0
                 THEN options.timeout ELSE DEFAULT_TIMEOUT]

----------------------------------------------------------------------------
(* Inputs of the orchestrator *)

Calls == 1..MaxCalls

OptionsSet ==
    { [language |-> "c++", since |-> "weekly"],
      [language |-> "", since |-> "daily"],
      [since |-> "daily"] }

Pages ==
    { <<>>,
      <<[href |-> "/mock-author/mock-repo"], [nolink |-> TRUE]>> }

\* What axios.get rejects with: an Error, or a value that is no Error.
Rejections ==
    { [isError |-> TRUE, message |-> "Network error"],
      [isError |-> FALSE, value |-> "ECONNRESET"] }

TickSteps == {TRENDING_TTL * 500, TRENDING_TTL * 1000, TRENDING_TTL * 1000 + 1}

----------------------------------------------------------------------------
(* Inputs of the extractors, of parseNumber and of the filter *)

\* The sequences over S of length at most n.
SeqsUpTo(S, n) == UNION {[1..k -> S] : k \in 0..n}

\* (Record fields are written in alphabetical order throughout the inputs.)
Articles ==
    { [description |-> " A JavaScript library ", forks |-> "300",
       href |-> "/facebook/react", language |-> "JavaScript",
       stars |-> "1.2k", starsInPeriod |-> "100 stars today"],
      [nolink |-> TRUE],
      [href |-> "/owner", stars |-> "1,234", starsInPeriod |-> "1,234 stars this week"],
      [description |-> "Machine Learning", forks |-> "abc",
       href |-> "/tensorflow/tensorflow", language |-> "C++",
       stars |-> "k", starsInPeriod |-> "2.5k stars this month"] }

ListingPages == SeqsUpTo(Articles, MaxArticles)

\* The TrendOptions given to TrendService.parseHTML.
ParseOptionsSet ==
    { [since |-> "daily"],
      [limit |-> 0, since |-> "daily"],
      [limit |-> 2, since |-> "daily"],
      [since |-> "daily", topics |-> <<"LEARNING", "react">>] }

CountTexts ==
    { "", "   ", "0", "300", "1,234", "1.2k", "12.5k", "1.2345k", "abc", "k",
      "unknown", "-5", "12 stars", " 42" }

\* Repository values as the type declares them: name is a string;
\* description, language and topics are optional.
FilterRepos ==
    { [description |-> "A UI library", language |-> "JavaScript",
       name |-> "react", topics |-> <<"javascript", "UI">>],
      [description |-> "machine learning", language |-> "C++",
       name |-> "tensorflow", topics |-> <<"machine learning", "ai">>],
      [name |-> "rust", topics |-> <<>>],
      [language |-> "JavaScript", name |-> "vue"] }

FilterTopics ==
    { <<>>, <<"machine learning">>, <<"JAVASCRIPT">>, <<"none">>,
      <<"ui", "AI">>, <<"react a">> }

FilterOptionsSet ==
    {[limit |-> n] : n \in 0..MaxLimit}
        \cup {[limit |-> n, topics |-> t] : n \in 0..MaxLimit, t \in FilterTopics}

----------------------------------------------------------------------------
(* cli/commands/trending and utils/validator *)

Periods == {"daily", "weekly", "monthly"}

Formats == {"json", "table", "markdown"}

Ok == [ok |-> TRUE]

Throw(message) == [throws |-> message]

\* The error Commander prints for an argument that is not among an option's
\* choices (new Option(...).choices([...])), before it exits with code 1.
invalidChoice(flags, value, choices) ==
    "error: option '" \o flags \o "' argument '" \o value
        \o "' is invalid. Allowed choices are " \o choices \o "."

\* program.parse for the trending command: the options object the action is
\* called with (the defaults of --since, --limit and --format are filled in
\* where the argument was not given), or the error of a rejected choice.
commanderParse(options) ==
    IF options.since \notin Periods
    THEN Throw(invalidChoice("-s, --since <period>", options.since, "daily, weekly, monthly"))
    ELSE IF options.format \notin Formats
    THEN Throw(invalidChoice("-f, --format <format>", options.format, "json, table, markdown"))
    ELSE Ok

\* The messages of the validator. The source's texts are Chinese for
\* "invalid period, use daily, weekly or monthly", "invalid limit, use a
\* number between 1-100" and "invalid output format, use json, table or
\* markdown".
InvalidPeriodMessage == "invalid period, use daily, weekly or monthly"

InvalidLimitMessage == "invalid limit, use a number between 1-100"

InvalidFormatMessage == "invalid output format, use json, table or markdown"

\* validateTrendingOptions: since is one of the periods or falsy; limit is
\* within 1..100 or falsy (0).
validateTrendingOptions(options) ==
    IF options.since # "" /\ options.since \notin Periods THEN Throw(InvalidPeriodMessage)
    ELSE IF options.limit # 0 /\ (options.limit < 1 \/ options.limit > 100)
    THEN Throw(InvalidLimitMessage)
    ELSE Ok

\* validateOutputFormat
validateOutputFormat(format) ==
    IF format \notin Formats THEN Throw(InvalidFormatMessage) ELSE Ok

\* let since = 'daily'; if (options.since && [...].includes(options.since))
\* since = options.since
sinceOfCommand(options) == IF options.since \in Periods THEN options.since ELSE "daily"

\* parseInt(options.limit, 10) || config.github.defaultLimit
limitOfCommand(options, cfg) ==
    LET n == parseInt(options.limit)
    IN  IF IsNaN(n) \/ n.num = 0 THEN cfg.github.defaultLimit ELSE n.num

\* options.topics ? options.topics.split(',').map((t) => t.trim()) : []
topicsOfCommand(options) ==
    IF "topics" \in DOMAIN options /\ options.topics # ""
    THEN LET parts == split(options.topics, ",")
         IN  [i \in 1..Len(parts) |-> trim(parts[i])]
    ELSE <<>>

\* const trendingOptions = { language: options.language, since, limit }
trendingOptionsOf(options, cfg) ==
    LET base == [limit |-> limitOfCommand(options, cfg), since |-> sinceOfCommand(options)]
    IN  IF "language" \in DOMAIN options THEN [language |-> options.language] @@ base ELSE base

\* What handleTrendingCommand checks before it fetches, in its order: the
\* format, then the trending options.
validationOf(options, cfg) ==
    LET format == IF options.format # "" THEN validateOutputFormat(options.format) ELSE Ok
    IN  IF format # Ok THEN format ELSE validateTrendingOptions(trendingOptionsOf(options, cfg))

----------------------------------------------------------------------------
(* Inputs of the enrichment *)

\* The most records given to enrichWithAI.
MaxBatch == 2

EnrichRepos ==
    { [author |-> "facebook", description |-> "UI", forks |-> Whole(300),
       language |-> "JavaScript", name |-> "react", rank |-> 1,
       stars |-> Whole(1200), starsInPeriod |-> Whole(100),
       url |-> "https://github.com/facebook/react"],
      [author |-> "tensorflow", description |-> "", forks |-> Whole(0),
       language |-> "C++", name |-> "tensorflow", rank |-> 2,
       stars |-> Whole(5), starsInPeriod |-> Whole(0),
       url |-> "https://github.com/tensorflow/tensorflow"] }

EnrichBatches == SeqsUpTo(EnrichRepos, MaxBatch)

\* The ai section of the user's configuration file.
UserAiSections ==
    { [apiKey |-> "sk-1", enabled |-> TRUE],
      [enabled |-> TRUE],
      [apiKey |-> "sk-1"],
      [enabled |-> FALSE] }

\* What generateText resolves with.
ResponseTexts ==
    { "{\"aiSummary\":\"s\"}",
      "'''json\n{\"category\":\"web\"}\n'''",
      "Sorry, no JSON",
      "{\"stars\":0}" }

\* Response texts for parseAIResponse alone: the above, a document with a
\* nested object, a fenced block that holds no JSON followed by a document,
\* and a document that is no object.
ParseTexts ==
    ResponseTexts
        \cup { "{\"meta\":{\"x\":1},\"aiSummary\":\"s\"}",
                "'''json\nnot json\n'''\n{\"aiSummary\":\"s\"}",
                " [] " }

\* The message of the Error generateText rejects with.
ModelErrors == {"429 rate limited"}

----------------------------------------------------------------------------
(* Inputs of the trending command: the options as given on the command      *)
(* line, --since, --limit and --format with their defaults when not given.  *)

SinceArguments == {"daily", "weekly", "yearly"}

LimitArguments == {"25", "1", "100", "0", "101", "-5", "abc"}

FormatArguments == {"json", "table", "xml"}

CommandLines ==
    {[format |-> f, limit |-> l, since |-> s] :
        f \in FormatArguments, l \in LimitArguments, s \in SinceArguments}
    \cup {[format |-> "json", limit |-> l, since |-> "daily", topics |-> "React, ui"] :
        l \in LimitArguments}

\* The command lines of a later call of the handler, if there is one.
LaterLines ==
    {<<>>} \cup {<<[format |-> "json", limit |-> l, since |-> "daily"]>> : l \in {"1", "25"}}

\* The pages a GET of the command gets: those above, and a listing of three
\* repositories.
CommandPages ==
    Pages \cup
    { << [description |-> " A JavaScript library ", forks |-> "300",
          href |-> "/facebook/react", language |-> "JavaScript",
          stars |-> "1.2k", starsInPeriod |-> "100 stars today"],
         [description |-> "Machine Learning", forks |-> "12",
          href |-> "/tensorflow/tensorflow", language |-> "C++",
          stars |-> "3,000", starsInPeriod |-> "2.5k stars this month"],
         [href |-> "/mock-author/mock-repo"] >> }

----------------------------------------------------------------------------
(* Inputs of the metadata fetch: two pages that do not change, and the      *)
(* requests made of them through urlMetadata.                               *)

DocsUrl == "https://a.dev/docs/page"

BareUrl == "https://b.dev"

DocsPage ==
    [title |-> " A page ", description |-> "About a", author |-> "ann",
     siteName |-> "A", ogType |-> "article", ogImage |-> "https://a.dev/og.png",
     icon |-> "/favicon.ico", keywords |-> "cli, trends", lang |-> "en",
     publishedTime |-> "2024-01-01", modifiedTime |-> "2024-02-01",
     main |-> <<" Intro ", " ", "Body">>, tags |-> <<" cli ">>]

BarePage ==
    [title |-> "", ogDescription |-> "About b", twitterImage |-> "https://b.dev/t.png",
     shortcutIcon |-> "icon.png",
     paragraphs |-> <<"short", "a paragraph of more than forty characters.">>]

\* response.data of the GET of a URL.
PageAt(url) == IF url = DocsUrl THEN DocsPage ELSE BarePage

MetadataRequests ==
    { [url |-> DocsUrl, options |-> [depth |-> "deep", includeImages |-> TRUE]],
      [url |-> DocsUrl, options |-> [depth |-> "normal", includeImages |-> FALSE]],
      [url |-> DocsUrl, options |-> [timeout |-> 5000]],
      [url |-> DocsUrl, options |-> [depth |-> "basic", includeImages |-> FALSE]],
      [url |-> BareUrl, options |-> [depth |-> "deep"]] }

\* What axios.get rejects with: an error with a response, or one without.
PageRejections == {[status |-> "404"], [message |-> "timeout of 5000ms exceeded"]}

----------------------------------------------------------------------------
(* Initial state: the module has been loaded. memoryCache = new Map(),      *)
(* cache = new Cache() (enabled = true, maxSize = its default), and the     *)
(* configuration is the default merged with the user's file.               *)

Init ==
    /\ now = 0
    /\ memoryCache = <<>>
    /\ enabled = TRUE
    /\ maxSize = MaxSize
    /\ \E userEnabled \in BOOLEAN : config = mergeConfig(userEnabled)
    /\ last = [op |-> "none"]
    /\ setLog = {}
    /\ calls = [c \in Calls |-> [pc |-> "idle"]]
    /\ enrich = [pc |-> "idle"]
    /\ command = [pc |-> "idle"]

\* Time passes: Date.now() advances by d, up to limit.
Advance(d, limit) ==
    /\ now + d <= limit
    /\ now' = now + d
    /\ last' = [op |-> "tick"]
    /\ UNCHANGED <<memoryCache, enabled, maxSize, config, setLog, calls,
                   enrich, command>>

TickCache == \E d \in CacheTickSteps : Advance(d, MaxCacheTime)

\* cacheGet(key): cache.get(key) on the exported instance.
cacheGet(key) ==
    /\ memoryCache' = getTable(memoryCache, key, now)
    /\ last' = [op |-> "get", key |-> key,
                item |-> IF enabled THEN MapGet(memoryCache, key) ELSE Null,
                ret |-> get(memoryCache, key, now)]

\* cacheSet(key, data, ttlSeconds): cache.set(key, data, ttlSeconds).
cacheSet(key, data, ttlSeconds) ==
    /\ memoryCache' = set(memoryCache, key, data, ttlSeconds, now)
    /\ last' = [op |-> "set", key |-> key, data |-> data, ttl |-> ttlSeconds,
                size |-> sizeAfterSave(memoryCache, key)]
    /\ setLog' = logSet(setLog, key, ttlSeconds, now)

\* clearCache(): cache.clear().
clearCache ==
    /\ memoryCache' = clear(memoryCache)
    /\ last' = [op |-> "clear"]

Get ==
    /\ \E key \in Keys : cacheGet(key)
    /\ UNCHANGED <<now, enabled, maxSize, config, setLog, calls, enrich, command>>

Set ==
    /\ \E key \in Keys, data \in Values, ttlSeconds \in Ttls : cacheSet(key, data, ttlSeconds)
    /\ UNCHANGED <<now, enabled, maxSize, config, calls, enrich, command>>

Clear ==
    /\ clearCache
    /\ UNCHANGED <<now, enabled, maxSize, config, setLog, calls, enrich, command>>

\* getTrendingRepos(options), up to its await: the cache lookup, and on a
\* miss the axios.get it issues.
Start(c, options) ==
    LET cacheKey   == trendingCacheKey(options)
        cachedData == get(memoryCache, cacheKey, now)
        entered    == [options |-> options, cacheKey |-> cacheKey,
                       cachedData |-> cachedData, startedAt |-> now,
                       after |-> {d \in Calls : calls[d].pc \in {"returned", "thrown"}}]
    IN  /\ calls[c].pc = "idle"
        /\ c > 1 => calls[c - 1].pc # "idle"
        /\ cacheGet(cacheKey)
        /\ calls' = [calls EXCEPT ![c] =
                IF Truthy(cachedData)
                THEN [pc |-> "returned", ret |-> cachedData, endedAt |-> now,
                      gets |-> 0, parses |-> 0, sets |-> 0] @@ entered
                ELSE [pc |-> "awaiting", url |-> trendingUrl(options),
                      gets |-> 1, parses |-> 0, sets |-> 0] @@ entered]
        /\ UNCHANGED <<now, enabled, maxSize, config, setLog, enrich>>

\* Fault injection: the listing is cut to the caller's limit before it is
\* cached and returned.
ResolveLimited(c, html) ==
    LET repositories == Arr(slice(parseGitHubTrendingHtml(html), limitOf(calls[c].options)))
    IN  /\ calls[c].pc = "awaiting"
        /\ cacheSet(calls[c].cacheKey, repositories, TRENDING_TTL)
        /\ calls' = [calls EXCEPT ![c] =
                [pc |-> "returned", ret |-> repositories, endedAt |-> now,
                 parses |-> calls[c].parses + 1, sets |-> calls[c].sets + 1,
                 setArgs |-> <<calls[c].cacheKey, repositories, TRENDING_TTL>>] @@ calls[c]]
        /\ UNCHANGED <<now, enabled, maxSize, config, enrich>>

\* The GET resolves with a page: parse it, cache the result, return it.
Resolve(c, html) ==
    LET repositories == Arr(parseGitHubTrendingHtml(html))
    IN  /\ calls[c].pc = "awaiting"
        /\ cacheSet(calls[c].cacheKey, repositories, TRENDING_TTL)
        /\ calls' = [calls EXCEPT ![c] =
                [pc |-> "returned", ret |-> repositories, endedAt |-> now,
                 parses |-> calls[c].parses + 1, sets |-> calls[c].sets + 1,
                 setArgs |-> <<calls[c].cacheKey, repositories, TRENDING_TTL>>] @@ calls[c]]
        /\ UNCHANGED <<now, enabled, maxSize, config, enrich>>

\* Fault injection: a failed fetch caches an empty listing.
RejectCachingEmpty(c, error) ==
    /\ calls[c].pc = "awaiting"
    /\ cacheSet(calls[c].cacheKey, Arr(<<>>), TRENDING_TTL)
    /\ calls' = [calls EXCEPT ![c] =
            [pc |-> "thrown", thrown |-> [message |-> wrapError(error)],
             cause |-> error, endedAt |-> now] @@ calls[c]]
    /\ UNCHANGED <<now, enabled, maxSize, config, enrich>>

\* The GET rejects: the catch block throws the wrapped failure.
Reject(c, error) ==
    /\ calls[c].pc = "awaiting"
    /\ calls' = [calls EXCEPT ![c] =
            [pc |-> "thrown", thrown |-> [message |-> wrapError(error)],
             cause |-> error, endedAt |-> now] @@ calls[c]]
    /\ last' = [op |-> "throw"]
    /\ UNCHANGED <<now, memoryCache, enabled, maxSize, config, setLog, enrich>>

Tick == \E d \in TickSteps : Advance(d, MaxTime)

\* getTrendingRepos called as a library function (index: ghExplorer).
GetTrendingRepos ==
    /\ \E c \in Calls, options \in OptionsSet : Start(c, options)
    /\ UNCHANGED command

GetResolves ==
    /\ \E c \in Calls, html \in Pages : Resolve(c, html)
    /\ UNCHANGED command

GetRejects ==
    /\ \E c \in Calls, error \in Rejections : Reject(c, error)
    /\ UNCHANGED command

\* The orchestrator: the cache is reached only through getTrendingRepos.
Next == Tick \/ GetTrendingRepos \/ GetResolves \/ GetRejects

Spec == Init /\ [][Next]_vars

\* The cache under any client.
NextCache == TickCache \/ Get \/ Set \/ Clear

SpecCache == Init /\ [][NextCache]_vars

----------------------------------------------------------------------------
(* The pure functions, applied to any input: the initial state holds the    *)
(* call that is about to be made, and the one step makes it.                *)

\* The options of two trending fetches: a language named "all", an empty
\* language, no language, other languages, under each way of giving the period.
RequestOptions ==
    { [language |-> "all", since |-> "daily"],
      [language |-> "all"],
      [language |-> "", since |-> "daily"],
      [since |-> "daily"],
      [since |-> "weekly"],
      [language |-> "c++", since |-> "weekly"],
      [language |-> "c#", since |-> "monthly"] }

\* getTrendingRepos, up to its cache lookup: the cache key and the request
\* URL it builds from its options.
requestOf(options) == [cacheKey |-> trendingCacheKey(options), url |-> trendingUrl(options)]

FunctionCalls ==
    {[fn |-> "parseGitHubTrendingHtml", html |-> html, op |-> "call"] :
        html \in ListingPages}
    \cup {[fn |-> "parseHTML", html |-> html, op |-> "call", options |-> options] :
        html \in ListingPages, options \in ParseOptionsSet}
    \cup {[fn |-> "parseNumber", op |-> "call", text |-> text] : text \in CountTexts}
    \cup {[fn |-> "filterRepositories", op |-> "call", options |-> options,
           repositories |-> repositories, variant |-> variant] :
        options \in FilterOptionsSet,
        repositories \in SeqsUpTo(FilterRepos, MaxRepos),
        variant \in {"topics", "text"}}
    \cup {[fn |-> "parseAIResponse", op |-> "call", text |-> text] : text \in ParseTexts}
    \cup {[fn |-> "requestOf", op |-> "call", first |-> first, second |-> second] :
        first \in RequestOptions, second \in RequestOptions}

InitFunctions ==
    /\ now = 0
    /\ memoryCache = <<>>
    /\ enabled = TRUE
    /\ maxSize = MaxSize
    /\ config = mergeConfig(TRUE)
    /\ last \in FunctionCalls
    /\ setLog = {}
    /\ calls = [c \in Calls |-> [pc |-> "idle"]]
    /\ enrich = [pc |-> "idle"]
    /\ command = [pc |-> "idle"]

\* The call returns: nothing but the record of the step changes.
Returns(fn, step) ==
    /\ last.op = "call"
    /\ last.fn = fn
    /\ last' = step
    /\ UNCHANGED <<now, memoryCache, enabled, maxSize, config, setLog, calls,
                   enrich, command>>

CallParseGitHubTrendingHtml ==
    Returns("parseGitHubTrendingHtml",
            [op |-> "parseGitHubTrendingHtml", html |-> last.html,
             ret |-> Arr(parseGitHubTrendingHtml(last.html))])

CallParseHTML ==
    Returns("parseHTML",
            [op |-> "parseHTML", html |-> last.html, options |-> last.options,
             ret |-> parseHTML(last.html, last.options)])

CallParseNumber ==
    Returns("parseNumber",
            [op |-> "parseNumber", text |-> last.text, ret |-> parseNumber(last.text)])

CallParseAIResponse ==
    Returns("parseAIResponse",
            [op |-> "parseAIResponse", text |-> last.text,
             ret |-> parseAIResponse(last.text)])

\* Two fetches build their requests.
CallRequestOf ==
    Returns("requestOf",
            [op |-> "requestOf", first |-> last.first, second |-> last.second,
             ret |-> <<requestOf(last.first), requestOf(last.second)>>])

CallFilterRepositories ==
    /\ last.op = "call"
    /\ last.fn = "filterRepositories"
    /\ last.variant = "topics"
    /\ Returns("filterRepositories",
               [op |-> "filterRepositories", variant |-> last.variant,
                repositories |-> last.repositories, options |-> last.options,
                ret |-> filterRepositories(last.repositories, last.options)])

CallFilterRepositoriesText ==
    /\ last.op = "call"
    /\ last.fn = "filterRepositories"
    /\ last.variant = "text"
    /\ Returns("filterRepositories",
               [op |-> "filterRepositories", variant |-> last.variant,
                repositories |-> last.repositories, options |-> last.options,
                ret |-> filterRepositoriesText(last.repositories, last.options)])

NextFunctions ==
    \/ CallParseGitHubTrendingHtml
    \/ CallParseHTML
    \/ CallParseNumber
    \/ CallParseAIResponse
    \/ CallRequestOf
    \/ CallFilterRepositories
    \/ CallFilterRepositoriesText

SpecFunctions == InitFunctions /\ [][NextFunctions]_vars

----------------------------------------------------------------------------
(* enrichWithAI, called with any batch under any ai configuration *)

InitEnrich ==
    /\ now = 0
    /\ memoryCache = <<>>
    /\ enabled = TRUE
    /\ maxSize = MaxSize
    /\ \E userAi \in UserAiSections : config = mergeAiConfig(mergeConfig(TRUE), userAi)
    /\ last = [op |-> "none"]
    /\ setLog = {}
    /\ calls = [c \in Calls |-> [pc |-> "idle"]]
    /\ \E repositories \in EnrichBatches :
          enrich = [pc |-> "idle", repositories |-> repositories]
    /\ command = [pc |-> "idle"]

\* enrichWithAI(repositories, options), up to the point where it waits for
\* Promise.all: the check of config.ai.enabled and the map, whose callbacks
\* each run to their await.
enrichWithAI ==
    LET repositories == enrich.repositories
    IN  /\ enrich.pc = "idle"
        /\ enrich' =
              IF ~config.ai.enabled
              THEN [pc |-> "returned", repositories |-> repositories,
                    ret |-> repositories, prompts |-> <<>>, promises |-> <<>>,
                    generateTextCalls |-> 0, order |-> <<>>]
              ELSE [pc |-> "awaiting", repositories |-> repositories,
                    prompts |-> [i \in 1..Len(repositories) |->
                                    createRepoPromptWithLength(repositories[i])],
                    promises |-> [i \in 1..Len(repositories) |->
                                    promiseAfterMap(config, repositories, i)],
                    generateTextCalls |->
                        IF hasApiKey(config) THEN Len(repositories) ELSE 0,
                    order |-> <<>>]
        /\ last' = [op |-> "enrichWithAI"]

\* generateText of record i resolves with a text: the callback parses it and
\* returns the merged record.
generateTextResolves(i, text) ==
    /\ enrich.pc = "awaiting"
    /\ enrich.promises[i].state = "pending"
    /\ enrich' = [enrich EXCEPT
            !.promises[i] = [state |-> "fulfilled", response |-> text,
                             value |-> spread(enrich.repositories[i], parseAIResponse(text))],
            !.order = Append(@, i)]
    /\ last' = [op |-> "generateTextResolves"]

\* generateText of record i rejects: generateAIText rethrows, the callback
\* catches and returns the record.
generateTextRejects(i, message) ==
    /\ enrich.pc = "awaiting"
    /\ enrich.promises[i].state = "pending"
    /\ enrich' = [enrich EXCEPT
            !.promises[i] = [state |-> "fulfilled", error |-> message,
                             value |-> enrich.repositories[i]],
            !.order = Append(@, i)]
    /\ last' = [op |-> "generateTextRejects"]

\* Every promise is fulfilled: Promise.all resolves and enrichWithAI returns.
promiseAllResolves ==
    /\ enrich.pc = "awaiting"
    /\ \A i \in 1..Len(enrich.promises) : enrich.promises[i].state = "fulfilled"
    /\ enrich' = [ret |-> promiseAll(enrich)] @@ [enrich EXCEPT !.pc = "returned"]
    /\ last' = [op |-> "promiseAll"]

EnrichUnchanged == UNCHANGED <<now, memoryCache, enabled, maxSize, config, setLog, calls, command>>

EnrichWithAI == enrichWithAI /\ EnrichUnchanged

GenerateTextResolves ==
    /\ enrich.pc = "awaiting"
    /\ \E i \in 1..Len(enrich.promises), text \in ResponseTexts : generateTextResolves(i, text)
    /\ EnrichUnchanged

GenerateTextRejects ==
    /\ enrich.pc = "awaiting"
    /\ \E i \in 1..Len(enrich.promises), message \in ModelErrors : generateTextRejects(i, message)
    /\ EnrichUnchanged

PromiseAllResolves == promiseAllResolves /\ EnrichUnchanged

NextEnrich ==
    \/ EnrichWithAI
    \/ GenerateTextResolves
    \/ GenerateTextRejects
    \/ PromiseAllResolves

SpecEnrich == InitEnrich /\ [][NextEnrich]_vars

----------------------------------------------------------------------------
(* The trending command, run in a fresh process with any command line. A   *)
(* run that succeeds returns without ending the process, and the host may  *)
(* call the handler again while the table lives.                            *)

InitCommand ==
    /\ now = 0
    /\ memoryCache = <<>>
    /\ enabled = TRUE
    /\ maxSize = MaxSize
    /\ config = mergeConfig(TRUE)
    /\ last = [op |-> "none"]
    /\ setLog = {}
    /\ calls = [c \in Calls |-> [pc |-> "idle"]]
    /\ enrich = [pc |-> "idle"]
    /\ \E options \in CommandLines, later \in LaterLines :
          command = [pc |-> "idle", options |-> options, later |-> later,
                     run |-> 1, outputs |-> <<>>]

\* process.exit(code) after the message was written to stderr.
exited(code, message) ==
    [pc |-> "exited", options |-> command.options, exitCode |-> code, stderr |-> message,
     later |-> command.later, run |-> command.run, outputs |-> command.outputs]

\* The command is run: Commander parses the command line, and the action
\* handleTrendingCommand runs up to its await of getTrendingRepos, or to
\* the process.exit(1) of a rejected option.
RunTrendingCommand ==
    LET options  == command.options
        parsed   == commanderParse(options)
        verdict  == validationOf(options, config)
    IN  /\ command.pc = "idle"
        /\ IF parsed # Ok
           THEN /\ command' = exited(1, parsed.throws)
                /\ last' = [op |-> "exit"]
                /\ UNCHANGED <<now, memoryCache, enabled, maxSize, config, setLog,
                               calls, enrich>>
           ELSE IF verdict # Ok
           THEN /\ command' = exited(1, "Error: " \o verdict.throws)
                /\ last' = [op |-> "exit"]
                /\ UNCHANGED <<now, memoryCache, enabled, maxSize, config, setLog,
                               calls, enrich>>
           ELSE /\ Start(command.run, trendingOptionsOf(options, config))
                /\ command' = [pc |-> "fetching", options |-> options,
                               limit |-> limitOfCommand(options, config),
                               topics |-> topicsOfCommand(options),
                               later |-> command.later, run |-> command.run,
                               outputs |-> command.outputs]

\* getTrendingRepos has returned or thrown: the command filters and prints
\* the listing, or reports the failure and exits with code 1. (With the
\* default configuration AI is off and enrichWithAI is not called.)
TrendingCommandContinues ==
    /\ command.pc = "fetching"
    /\ calls[command.run].pc \in {"returned", "thrown"}
    /\ ~(config.ai.enabled /\ hasApiKey(config))
    /\ command' =
          IF calls[command.run].pc = "returned"
          THEN LET repositories == calls[command.run].ret.array
                   filtered     == filterRepositories(repositories,
                                       [limit |-> command.limit, topics |-> command.topics])
               IN  [pc |-> "exited", options |-> command.options, exitCode |-> 0,
                    stdout |-> filtered, later |-> command.later, run |-> command.run,
                    outputs |-> Append(command.outputs,
                                   [limit |-> command.limit, topics |-> command.topics,
                                    repositories |-> repositories, stdout |-> filtered,
                                    gets |-> calls[command.run].gets])]
          ELSE exited(1, "Failed to get trending data: "
                            \o calls[command.run].thrown.message)
    /\ last' = [op |-> "exit"]
    /\ UNCHANGED <<now, memoryCache, enabled, maxSize, config, setLog, calls, enrich>>

\* The handler is called again, with the next command line.
TrendingCommandAgain ==
    /\ command.pc = "exited"
    /\ command.exitCode = 0
    /\ command.later # <<>>
    /\ command.run + 1 \in Calls
    /\ command' = [pc |-> "idle", options |-> Head(command.later),
                   later |-> Tail(command.later), run |-> command.run + 1,
                   outputs |-> command.outputs]
    /\ last' = [op |-> "again"]
    /\ UNCHANGED <<now, memoryCache, enabled, maxSize, config, setLog, calls, enrich>>

\* The GET of the command's fetch resolves.
CommandGetResolves ==
    /\ \E html \in CommandPages : Resolve(command.run, html)
    /\ UNCHANGED command

\* The GET of the command's fetch rejects.
CommandGetRejects ==
    /\ \E error \in Rejections : Reject(command.run, error)
    /\ UNCHANGED command

NextCommand ==
    \/ Tick
    \/ TrendingCommandAgain
    \/ RunTrendingCommand
    \/ CommandGetResolves
    \/ CommandGetRejects
    \/ TrendingCommandContinues

SpecCommand == InitCommand /\ [][NextCommand]_vars

----------------------------------------------------------------------------
(* The metadata fetch: urlMetadata called any number of times, the calls    *)
(* overlapping or not, while time passes. The repository holds two          *)
(* extractors: one that goes through the cache and one that does not; the   *)
(* program is built with either.                                            *)

Extractors == {"cached", "uncached"}

InitMetadata ==
    /\ now = 0
    /\ memoryCache = <<>>
    /\ enabled = TRUE
    /\ maxSize = MaxSize
    /\ config = mergeConfig(TRUE)
    /\ last = [op |-> "none"]
    /\ setLog = {}
    /\ \E extractor \in Extractors :
          calls \in [Calls -> {[pc |-> "idle", extractor |-> extractor,
                                 url |-> r.url, partial |-> r.options] :
                                    r \in MetadataRequests}]
    /\ enrich = [pc |-> "idle"]
    /\ command = [pc |-> "idle"]

\* urlMetadata(url, options) and the extractMetadata that does not use the
\* cache, up to its await: the axios.get of getPageContent.
extractMetadataUncached(c) ==
    /\ calls[c].pc = "idle"
    /\ calls[c].extractor = "uncached"
    /\ c > 1 => calls[c - 1].pc # "idle"
    /\ calls' = [calls EXCEPT ![c] =
            [pc |-> "awaiting", options |-> extractionOptionsOf(calls[c].partial),
             gets |-> 1, parses |-> 0, sets |-> 0] @@ calls[c]]
    /\ last' = [op |-> "fetch"]
    /\ UNCHANGED <<now, memoryCache, enabled, maxSize, config, setLog, enrich, command>>

\* The GET resolves with the page: parse it and return the record.
pageResolvesUncached(c) ==
    /\ calls[c].pc = "awaiting"
    /\ calls[c].extractor = "uncached"
    /\ calls' = [calls EXCEPT ![c] =
            [pc |-> "returned",
             ret |-> Obj(parseMetadata(calls[c].url, PageAt(calls[c].url), calls[c].options)),
             parses |-> calls[c].parses + 1] @@ calls[c]]
    /\ last' = [op |-> "return"]
    /\ UNCHANGED <<now, memoryCache, enabled, maxSize, config, setLog, enrich, command>>

\* urlMetadata(url, options) and extractMetadata up to its await: the cache
\* lookup, and on a miss the axios.get of getPageContent.
extractMetadata(c) ==
    LET url        == calls[c].url
        options    == extractionOptionsOf(calls[c].partial)
        cacheKey   == metadataCacheKey(url, options)
        cachedData == get(memoryCache, cacheKey, now)
        entered    == [url |-> url, partial |-> calls[c].partial, options |-> options,
                       extractor |-> calls[c].extractor,
                       cacheKey |-> cacheKey, cachedData |-> cachedData]
    IN  /\ calls[c].pc = "idle"
        /\ calls[c].extractor = "cached"
        /\ c > 1 => calls[c - 1].pc # "idle"
        /\ cacheGet(cacheKey)
        /\ calls' = [calls EXCEPT ![c] =
                IF Truthy(cachedData)
                THEN [pc |-> "returned", ret |-> cachedData,
                      gets |-> 0, parses |-> 0, sets |-> 0] @@ entered
                ELSE [pc |-> "awaiting", gets |-> 1, parses |-> 0, sets |-> 0] @@ entered]
        /\ UNCHANGED <<now, enabled, maxSize, config, setLog, enrich, command>>

\* The GET resolves with the page: parse it, cache the record, return it.
pageResolves(c) ==
    LET metadata == Obj(parseMetadata(calls[c].url, PageAt(calls[c].url), calls[c].options))
    IN  /\ calls[c].pc = "awaiting"
        /\ calls[c].extractor = "cached"
        /\ cacheSet(calls[c].cacheKey, metadata, METADATA_TTL)
        /\ calls' = [calls EXCEPT ![c] =
                [pc |-> "returned", ret |-> metadata,
                 parses |-> calls[c].parses + 1, sets |-> calls[c].sets + 1,
                 setArgs |-> <<calls[c].cacheKey, metadata, METADATA_TTL>>] @@ calls[c]]
        /\ UNCHANGED <<now, enabled, maxSize, config, enrich, command>>

\* The GET rejects: getPageContent throws, and the catch block of
\* extractMetadata throws the wrapped failure.
pageRejects(c, error) ==
    /\ calls[c].pc = "awaiting"
    /\ calls' = [calls EXCEPT ![c] =
            [pc |-> "thrown",
             thrown |-> [message |-> metadataError(contentError(error))]] @@ calls[c]]
    /\ last' = [op |-> "throw"]
    /\ UNCHANGED <<now, memoryCache, enabled, maxSize, config, setLog, enrich, command>>

UrlMetadata == \E c \in Calls : extractMetadata(c) \/ extractMetadataUncached(c)

PageResolves == \E c \in Calls : pageResolves(c) \/ pageResolvesUncached(c)

PageRejects == \E c \in Calls, error \in PageRejections : pageRejects(c, error)

NextMetadata == Tick \/ UrlMetadata \/ PageResolves \/ PageRejects

SpecMetadata == InitMetadata /\ [][NextMetadata]_vars

----------------------------------------------------------------------------
(* What the claims speak of, stated from the table itself *)

\* The entries stored under key in table m (at most one).
EntriesOf(m, key) == {m[i] : i \in {j \in 1..Len(m) : m[j].key = key}}

\* The [key, data, expiry] entries of table m, as a set.
EntrySet(m) == {m[i] : i \in 1..Len(m)}

\* The table right after Cache.set has saved (key, data, ttl) at time t and
\* before it prunes, as a set of entries.
SavedSet(m, key, data, ttl, t) ==
    {e \in EntrySet(m) : e.key # key}
        \cup {[key |-> key, data |-> data, expiry |-> t + ttl * 1000]}

----------------------------------------------------------------------------
(* C1..C6: the cache *)

\* C1: Cache.get never returns a stale value. A get of a key that is absent,
\* or whose entry has now > expiresAt, returns a miss, and in the expired case
\* that get removes the entry; otherwise it returns the stored value.
C1_GetNeverStale ==
    [][last'.op = "get" =>
        LET es == EntriesOf(memoryCache, last'.key)
        IN  /\ es = {} => last'.ret = Null /\ memoryCache' = memoryCache
            /\ \A e \in es :
                IF now > e.expiry
                THEN /\ last'.ret = Null
                     /\ EntriesOf(memoryCache', last'.key) = {}
                ELSE last'.ret = e.data]_vars

\* C1 witness: a get found an entry past its expiry, missed and removed it.
C1_Witness ==
    /\ last.op = "get"
    /\ last.item # Null
    /\ now > last.item.expiry
    /\ last.ret = Null
    /\ EntriesOf(memoryCache, last.key) = {}

\* C2 as claimed: right after set(k, v, ttl) with ttl >= 1, get(k) returns v,
\* in every reachable state of the table (a full one included).
C2_SetThenGet ==
    (last.op = "set" /\ last.ttl >= 1) => get(memoryCache, last.key, now) = last.data

\* C3: the table never holds more than maxSize entries, and a set that pushed
\* the size above maxSize leaves it at exactly maxSize.
C3_SizeBounded ==
    /\ [](Len(memoryCache) <= maxSize)
    /\ [][(last'.op = "set" /\ last'.size > maxSize) => Len(memoryCache') = maxSize]_vars

\* C3 witness: a set pushed the size above maxSize and the table is at maxSize.
C3_Witness ==
    /\ last.op = "set"
    /\ last.size > maxSize
    /\ Len(memoryCache) = maxSize

\* C4: eviction is min-by-expiry. When a set makes the table exceed maxSize,
\* exactly size - maxSize entries are removed, every removed entry expires no
\* later than every entry that remains, and the entries that remain are unchanged.
C4_EvictionMinByExpiry ==
    [][(last'.op = "set" /\ last'.size > maxSize) =>
        LET saved   == SavedSet(memoryCache, last'.key, last'.data, last'.ttl, now)
            kept    == EntrySet(memoryCache')
            removed == saved \ kept
        IN  /\ kept \subseteq saved
            /\ Cardinality(removed) = last'.size - maxSize
            /\ \A r \in removed : \A e \in kept : r.expiry <= e.expiry]_vars

\* C4 witness: a set evicted an entry that was inserted after one that stays
\* (the choice went by expiry, not by age in the table).
C4_Witness ==
    /\ last.op = "set"
    /\ last.size > maxSize
    /\ Len(memoryCache) = maxSize
    /\ last.key \in MapKeys(memoryCache)
    /\ \E i \in 1..Len(memoryCache) :
          /\ memoryCache[i].key # last.key
          /\ memoryCache[i].expiry > now + last.ttl * 1000

\* C5: an entry expires after its TTL. If set(k, v, ttlSeconds) happened at
\* time T and k was not set again, every get(k) at a time later than
\* T + ttlSeconds * 1000 is a miss.
C5_ExpiresAfterTtl ==
    [][last'.op = "get" =>
        \A s \in setLog :
            (s.key = last'.key /\ now > s.at + s.ttl * 1000) => last'.ret = Null]_vars

\* C5 witness: a key set with ttl 1 is read 1.1 s later, and the read misses.
C5_Witness ==
    /\ last.op = "get"
    /\ last.ret = Null
    /\ last.item # Null
    /\ \E s \in setLog : s.key = last.key /\ s.ttl = 1 /\ now = s.at + 1100

\* C6 as claimed: with cache.enabled false in the configuration, every get on
\* the exported cache misses and every set leaves the table unchanged.
C6_DisabledByConfig ==
    [][~config.cache.enabled =>
        /\ last'.op = "get" => last'.ret = Null
        /\ last'.op = "set" => memoryCache' = memoryCache]_vars

----------------------------------------------------------------------------
(* C7..C10: getTrendingRepos *)

\* Call c was made with no other call in flight: every earlier call had ended.
Alone(c) == calls[c].pc # "idle" /\ calls[c].after = 1..(c - 1)

\* Calls c and c + 1 are made one after the other with identical arguments,
\* the second no later than TRENDING_TTL seconds after the first ended.
TwiceWithinTtl(c) ==
    /\ c + 1 \in Calls
    /\ Alone(c)
    /\ Alone(c + 1)
    /\ calls[c + 1].options = calls[c].options
    /\ calls[c + 1].startedAt <= calls[c].endedAt + TRENDING_TTL * 1000

\* The cache key the specification gives for each request of the model.
ExpectedKey(options) ==
    CASE options = [language |-> "c++", since |-> "weekly"] -> "trending:c++:weekly"
      [] options = [language |-> "", since |-> "daily"]     -> "trending:all:daily"
      [] options = [since |-> "daily"]                      -> "trending:all:daily"

\* C7: on a cache hit (an entry under the request's key that is not past its
\* expiry), getTrendingRepos returns the cached sequence at once, with no GET,
\* no extraction and no cache store, and the table is left as it was.
C7_HitSkipsNetwork ==
    [][\A c \in Calls :
        (calls[c].pc = "idle" /\ calls'[c].pc # "idle") =>
            \A e \in EntriesOf(memoryCache, ExpectedKey(calls'[c].options)) :
                now <= e.expiry =>
                    /\ calls'[c].pc = "returned"
                    /\ calls'[c].ret = e.data
                    /\ calls'[c].gets = 0
                    /\ calls'[c].parses = 0
                    /\ calls'[c].sets = 0
                    /\ memoryCache' = memoryCache
                    /\ setLog' = setLog]_vars

\* C7 witness: a call returned an empty cached listing without a GET.
C7_Witness ==
    \E c \in Calls :
        /\ calls[c].pc = "returned"
        /\ calls[c].cachedData = Arr(<<>>)
        /\ calls[c].ret = Arr(<<>>)
        /\ calls[c].gets = 0

\* C8 as claimed: two calls, one after the other, with identical arguments and
\* the second within the TTL window of the first, issue at most one GET in total.
C8_AtMostOneGet ==
    \A c \in Calls : TwiceWithinTtl(c) => calls[c].gets + calls[c + 1].gets <= 1

\* C8 amended: the same, when the first call returned a listing (its GET, if
\* it issued one, succeeded).
C8_AtMostOneGetAfterSuccess ==
    \A c \in Calls :
        (TwiceWithinTtl(c) /\ calls[c].pc = "returned") =>
            calls[c].gets + calls[c + 1].gets <= 1

\* C8 witness: the first call fetched, the second came exactly TRENDING_TTL
\* seconds after it ended and issued no GET.
C8_Witness ==
    \E c \in Calls :
        /\ TwiceWithinTtl(c)
        /\ calls[c].pc = "returned"
        /\ calls[c].gets = 1
        /\ calls[c + 1].startedAt = calls[c].endedAt + TRENDING_TTL * 1000
        /\ calls[c + 1].gets = 0

\* C9: on a miss followed by a successful GET, getTrendingRepos calls cacheSet
\* exactly once, with the key "trending:<language or all>:<period>", the
\* sequence it returns and a TTL of 3600 seconds, and the table then holds
\* that sequence under that key until 3600 s from now.
C9_MissStoresOnce ==
    /\ [](\A c \in Calls :
            (calls[c].pc = "returned" /\ calls[c].gets = 1) =>
                /\ calls[c].sets = 1
                /\ calls[c].setArgs = <<ExpectedKey(calls[c].options), calls[c].ret, 3600>>)
    /\ [][\A c \in Calls :
            (calls[c].pc = "awaiting" /\ calls'[c].pc = "returned") =>
                [key    |-> ExpectedKey(calls[c].options),
                 data   |-> calls'[c].ret,
                 expiry |-> now + 3600 * 1000] \in EntrySet(memoryCache')]_vars

\* C9 witness: a call for c++/weekly missed, fetched and stored its listing.
C9_Witness ==
    \E c \in Calls :
        /\ calls[c].pc = "returned"
        /\ calls[c].gets = 1
        /\ calls[c].sets = 1
        /\ calls[c].setArgs[1] = "trending:c++:weekly"
        /\ Len(calls[c].ret.array) = 2

\* C10: a network failure reaches the caller as one failure whose message
\* holds the operation prefix and the original error's text; the call that
\* failed issued exactly one GET, stored nothing, and no call whose GET was
\* rejected returns a value.
C10_FailurePropagates ==
    \A c \in Calls :
        /\ calls[c].pc = "thrown" =>
            /\ includes(calls[c].thrown.message, TrendingFailurePrefix)
            /\ includes(calls[c].thrown.message,
                        IF calls[c].cause.isError
                        THEN calls[c].cause.message ELSE calls[c].cause.value)
            /\ calls[c].gets = 1
            /\ calls[c].sets = 0
        /\ calls[c].pc = "returned" => "cause" \notin DOMAIN calls[c]

\* C10 witness: a call failed with the wrapped "Network error".
C10_Witness ==
    \E c \in Calls :
        /\ calls[c].pc = "thrown"
        /\ calls[c].cause = [isError |-> TRUE, message |-> "Network error"]
        /\ calls[c].thrown.message = "getTrendingRepos failed: Network error"

----------------------------------------------------------------------------
(* The extractors, parseNumber and the filter *)

HasOwnerAndName(repo) ==
    /\ repo.author # ""
    /\ "name" \in DOMAIN repo
    /\ repo.name # ""

Extracted == last.op \in {"parseGitHubTrendingHtml", "parseHTML"} /\ "array" \in DOMAIN last.ret

\* C11: no record returned by the trending extractor has an empty or missing
\* owner or name; an entry whose title link is absent or does not split into
\* an owner and a name yields no record.
C11_NoRecordWithoutOwnerOrName ==
    Extracted =>
        \A j \in 1..Len(last.ret.array) : HasOwnerAndName(last.ret.array[j])

\* The url an extractor builds for the entry at position i of the page.
UrlOfEntry(html, i) ==
    "https://github.com/" \o SubSeq(relativeUrlOf(html[i]), 2, Len(relativeUrlOf(html[i])))

\* C12: every record an extractor returns carries the 1-based position of
\* its entry among all entries of the page, dropped ones counted: the ranks
\* strictly increase, the record with rank i is the one built from entry i,
\* and parseGitHubTrendingHtml, which drops nothing, leaves no gap.
C12_RankIsRawPosition ==
    Extracted =>
        LET out == last.ret.array
        IN  /\ \A j \in 1..Len(out) :
                  /\ out[j].rank \in 1..Len(last.html)
                  /\ out[j].rank >= j
                  /\ relativeUrlOf(last.html[out[j].rank]) # ""
                        => out[j].url = UrlOfEntry(last.html, out[j].rank)
            /\ \A j \in 1..(Len(out) - 1) : out[j].rank < out[j + 1].rank
            /\ last.op = "parseGitHubTrendingHtml" =>
                  /\ Len(out) = Len(last.html)
                  /\ \A j \in 1..Len(out) : out[j].rank = j

\* parseHTML dropped an entry and a later record shows the gap in its rank.
C12_Witness ==
    /\ last.op = "parseHTML"
    /\ "array" \in DOMAIN last.ret
    /\ \E j \in 1..Len(last.ret.array) :
          /\ last.ret.array[j].rank > j
          /\ j > 1

Filtered == last.op = "filterRepositories"

Shorter(a, b) == IF a < b THEN a ELSE b

\* C13: with no topics, absent or empty, filterRepositories returns the first
\* min(limit, n) records of its input in their order, for every limit >= 0.
C13_NoTopicsIsPrefix ==
    (Filtered /\ ~hasTopics(last.options)) =>
        last.ret = SubSeq(last.repositories, 1,
                          Shorter(last.options.limit, Len(last.repositories)))

\* A limit below the length of the input cut it, with topics given as [].
C13_Witness ==
    /\ Filtered
    /\ "topics" \in DOMAIN last.options
    /\ last.options.topics = <<>>
    /\ last.options.limit > 0
    /\ last.options.limit < Len(last.repositories)
    /\ Len(last.ret) = last.options.limit

\* Are two strings equal up to the case of their letters?
SameIgnoringCase(a, b) == toLowerCase(a) = toLowerCase(b)

\* What the text variant searches: name, description and language, one
\* space between them.
SearchedText(repo) ==
    repo.name \o " " \o (IF "description" \in DOMAIN repo THEN repo.description ELSE "")
        \o " " \o (IF "language" \in DOMAIN repo THEN repo.language ELSE "")

\* Does a topic keyword match the record, in the variant that was called?
KeywordMatches(variant, repo, topic) ==
    IF variant = "topics"
    THEN "topics" \in DOMAIN repo
            /\ \E j \in 1..Len(repo.topics) : SameIgnoringCase(repo.topics[j], topic)
    ELSE LET text == toLowerCase(SearchedText(repo))
             word == toLowerCase(topic)
         IN  \E i \in 1..(Len(text) + 1) :
                /\ i + Len(word) - 1 <= Len(text)
                /\ SubSeq(text, i, i + Len(word) - 1) = word

Retained(variant, repo, topics) ==
    \E i \in 1..Len(topics) : KeywordMatches(variant, repo, topics[i])

IsNonNegativeInteger(x) == ~IsNaN(x) /\ x.frac = 0 /\ x.num >= 0

\* C15: parseNumber yields a non-negative integer for every string: 0 for
\* empty or blank text, 1234 for "1,234", 1200 for "1.2k", 0 for text that is
\* no number; so stars, forks and starsInPeriod of every record
\* parseGitHubTrendingHtml returns are non-negative integers.
C15_ParseNumberNonNegativeInteger ==
    /\ last.op = "parseNumber" =>
          /\ IsNonNegativeInteger(last.ret)
          /\ trim(last.text) = "" => last.ret = Whole(0)
          /\ last.text = "1,234" => last.ret = Whole(1234)
          /\ last.text = "1.2k" => last.ret = Whole(1200)
          /\ (\A i \in 1..Len(last.text) : ~IsDigit(charAt(last.text, i)))
                => last.ret = Whole(0)
    /\ last.op = "parseGitHubTrendingHtml" =>
          \A j \in 1..Len(last.ret.array) :
              /\ IsNonNegativeInteger(last.ret.array[j].stars)
              /\ IsNonNegativeInteger(last.ret.array[j].forks)
              /\ IsNonNegativeInteger(last.ret.array[j].starsInPeriod)

----------------------------------------------------------------------------
(* The enrichment *)

BaseFields ==
    {"rank", "author", "name", "url", "description", "language", "stars", "forks",
     "starsInPeriod"}

EnrichmentFields == {"aiSummary", "keyPoints", "category"}

EnrichReturned == enrich.pc = "returned"

\* The call of the model for record i failed.
ModelCallFailed(i) == "error" \in DOMAIN enrich.promises[i]

\* No JSON document is to be had from a text: not from a fenced block, not
\* from its first braces, not from the whole of it.
HasNoJson(text) ==
    /\ jsonParse(trim(text)) = SyntaxError
    /\ fencedMatch(text) # Null => jsonParse(fencedMatch(text).capture) = SyntaxError
    /\ bracedMatch(text) # Null => jsonParse(bracedMatch(text).capture) = SyntaxError

\* The response of the model for record i could not be parsed.
ResponseUnparsable(i) ==
    /\ "response" \in DOMAIN enrich.promises[i]
    /\ HasNoJson(enrich.promises[i].response)

\* C16: a record whose model call failed or whose response could not be
\* parsed is returned equal to the input record, no field added or changed,
\* and enrichWithAI returns (it never throws).
C16_FailureLeavesRecordUnchanged ==
    /\ enrich.pc \in {"idle", "awaiting", "returned"}
    /\ EnrichReturned =>
          \A i \in 1..Len(enrich.promises) :
              (ModelCallFailed(i) \/ ResponseUnparsable(i))
                  => enrich.ret[i] = enrich.repositories[i]

\* C17: the base fields of every returned record equal those of the input
\* record, whatever the model answered, and the only fields added are the
\* enrichment fields.
C17_OnlyEnrichmentFieldsChange ==
    EnrichReturned =>
        \A i \in 1..Len(enrich.ret) :
            /\ \A f \in BaseFields : enrich.ret[i][f] = enrich.repositories[i][f]
            /\ DOMAIN enrich.ret[i] \subseteq BaseFields \cup EnrichmentFields

\* What the enrichment of record i by itself gives, from its own response.
EnrichedAlone(i) ==
    IF ModelCallFailed(i) THEN enrich.repositories[i]
    ELSE parseAIResponse(enrich.promises[i].response) @@ enrich.repositories[i]

\* C18: while enrichWithAI waits, the model has been called for all n
\* records, whichever of the calls have completed; and it returns n records,
\* the one at position i being input record i as its own enrichment left it,
\* for every order in which the calls complete.
C18_FanOutKeepsOrder ==
    /\ (enrich.pc = "awaiting" /\ hasApiKey(config)) =>
          /\ enrich.generateTextCalls = Len(enrich.repositories)
          /\ Len(enrich.promises) = Len(enrich.repositories)
    /\ (EnrichReturned /\ config.ai.enabled) =>
          /\ Len(enrich.ret) = Len(enrich.repositories)
          /\ \A i \in 1..Len(enrich.ret) :
                /\ enrich.ret[i] = EnrichedAlone(i)
                /\ enrich.ret[i].url = enrich.repositories[i].url
                /\ enrich.ret[i].rank = enrich.repositories[i].rank

\* Two different records, the call for the second completing first, and
\* the first of them enriched.
C18_Witness ==
    /\ EnrichReturned
    /\ enrich.order = <<2, 1>>
    /\ enrich.repositories[1] # enrich.repositories[2]
    /\ "aiSummary" \in DOMAIN enrich.ret[1]
    /\ ModelCallFailed(2)

\* C19: with the feature disabled or no API key configured, enrichWithAI
\* builds no prompt and calls the model for no record, and returns its input.
C19_SkippedUpfront ==
    (enrich.pc # "idle" /\ (~config.ai.enabled \/ ~hasApiKey(config))) =>
        /\ enrich.prompts = <<>>
        /\ enrich.generateTextCalls = 0
        /\ EnrichReturned => enrich.ret = enrich.repositories

----------------------------------------------------------------------------
(* The trending command *)

\* Is a text a decimal numeral, and which number?
IsNumeral(text) ==
    /\ Len(text) > 0
    /\ \A i \in 1..Len(text) : IsDigit(charAt(text, i))

NumeralValue(text) == digitsValue(text, 1, Len(text) + 1)

LimitOutOfRange(options) ==
    ~(IsNumeral(options.limit) /\ NumeralValue(options.limit) \in 1..100)

PeriodUnknown(options) == options.since \notin {"daily", "weekly", "monthly"}

FormatUnknown(options) == options.format \notin {"json", "table", "markdown"}

\* C20: a run of the trending command whose limit is outside 1..100, whose
\* period is none of daily, weekly, monthly or whose format is none of json,
\* table, markdown exits with a nonzero code and a message that names the
\* allowed values, before the cache is read or a GET is issued.
C20_InvalidInputRejected ==
    (command.pc # "idle"
        /\ (LimitOutOfRange(command.options) \/ PeriodUnknown(command.options)
                \/ FormatUnknown(command.options))) =>
        /\ command.pc = "exited"
        /\ command.exitCode # 0
        /\ \/ PeriodUnknown(command.options)
                /\ includes(command.stderr, "daily, weekly")
                /\ includes(command.stderr, "monthly")
           \/ FormatUnknown(command.options)
                /\ includes(command.stderr, "json, table")
                /\ includes(command.stderr, "markdown")
           \/ LimitOutOfRange(command.options) /\ includes(command.stderr, "1-100")
        /\ \A c \in Calls : calls[c].pc = "idle"
        /\ memoryCache = <<>>
        /\ last.op \notin {"get", "set"}

----------------------------------------------------------------------------
(* C21, C22: the metadata fetch *)

\* The cache key the specification gives for each request of the model.
ExpectedMetadataKey(url, depth) ==
    CASE url = "https://a.dev/docs/page" /\ depth = "deep"   -> "metadata:https://a.dev/docs/page:deep"
      [] url = "https://a.dev/docs/page" /\ depth = "normal" -> "metadata:https://a.dev/docs/page:normal"
      [] url = "https://a.dev/docs/page" /\ depth = "basic"  -> "metadata:https://a.dev/docs/page:basic"
      [] url = "https://b.dev" /\ depth = "deep"             -> "metadata:https://b.dev:deep"

\* C21: the metadata fetch reads the cache under "metadata:<url>:<depth>". On
\* a hit it returns the cached record with no GET, no extraction and no
\* store; on a miss it issues one GET, and when the page arrives it extracts
\* the record, stores it under that key and returns it.
C21_MetadataHitMiss ==
    [][\A c \in Calls :
        /\ (calls[c].pc = "idle" /\ calls'[c].pc # "idle") =>
              LET es == EntriesOf(memoryCache,
                            ExpectedMetadataKey(calls'[c].url, calls'[c].options.depth))
                  live == {e \in es : now <= e.expiry}
              IN  /\ \A e \in live :
                        /\ calls'[c].pc = "returned"
                        /\ calls'[c].ret = e.data
                        /\ calls'[c].gets = 0
                        /\ calls'[c].parses = 0
                        /\ calls'[c].sets = 0
                        /\ memoryCache' = memoryCache
                  /\ live = {} => calls'[c].pc = "awaiting" /\ calls'[c].gets = 1
        /\ (calls[c].pc = "awaiting" /\ calls'[c].pc = "returned") =>
              /\ calls'[c].gets = 1
              /\ calls'[c].parses = 1
              /\ calls'[c].sets = 1
              /\ "url" \in DOMAIN calls'[c].ret.object
              /\ [key    |-> ExpectedMetadataKey(calls[c].url, calls[c].options.depth),
                  data   |-> calls'[c].ret,
                  expiry |-> now + 3600 * 1000] \in EntrySet(memoryCache')]_vars

\* C22: a record returned by a metadata fetch of depth basic or normal has no
\* contentPreview and no tags, whatever was fetched before.
C22_ShallowHasNoDeepFields ==
    \A c \in Calls :
        (calls[c].pc = "returned" /\ "url" \in DOMAIN calls[c]
            /\ calls[c].options.depth \in {"basic", "normal"}) =>
            /\ "contentPreview" \notin DOMAIN calls[c].ret.object
            /\ "tags" \notin DOMAIN calls[c].ret.object

\* C22 witness: a normal fetch of a page returned while the deep record of
\* the same page, with its contentPreview and tags, was in the cache.
C22_Witness ==
    \E c, d \in Calls :
        /\ d < c
        /\ calls[d].pc = "returned"
        /\ calls[d].options.depth = "deep"
        /\ calls[d].ret.object.contentPreview = "Intro Body"
        /\ calls[d].ret.object.tags = <<"cli">>
        /\ calls[c].pc = "returned"
        /\ calls[c].url = calls[d].url
        /\ calls[c].options.depth = "normal"
        /\ calls[c].cachedData = Null
        /\ \E e \in EntriesOf(memoryCache, calls[d].cacheKey) :
              e.data = calls[d].ret /\ now <= e.expiry

----------------------------------------------------------------------------
(* C28: the metadata cache against no cache *)

\* C28: every metadata fetch returns the record that the same call returns
\* without a cache, the extraction of the (unchanged) page under the call's
\* own options; so a call with includeImages false returns no image and no icon.
C28_MetadataCacheTransparent ==
    \A c \in Calls :
        calls[c].pc = "returned" =>
            /\ calls[c].ret =
                  Obj(parseMetadata(calls[c].url, PageAt(calls[c].url), calls[c].options))
            /\ ~calls[c].options.includeImages =>
                  /\ "image" \notin DOMAIN calls[c].ret.object
                  /\ "icon" \notin DOMAIN calls[c].ret.object

----------------------------------------------------------------------------
(* C23: overlapping fetches *)

\* Calls c and d asked for the same key, and d started while the GET of c
\* was in flight.
Overlap(c, d) ==
    /\ c < d
    /\ calls[c].pc # "idle"
    /\ calls[d].pc # "idle"
    /\ calls[c].cacheKey = calls[d].cacheKey
    /\ calls[c].gets = 1
    /\ c \notin calls[d].after

\* No other call had stored a listing under the key of d that was still live
\* when d started.
NoneStoredBefore(c, d) ==
    \A e \in calls[d].after \ {c, d} :
        (calls[e].pc = "returned" /\ calls[e].cacheKey = calls[d].cacheKey) =>
            calls[d].startedAt > calls[e].endedAt + TRENDING_TTL * 1000

\* C23: there is no single-flight protection. Of two fetches for the same key
\* that overlap, each misses at its own cache lookup and issues its own GET,
\* and each stores its listing when its GET completes: after every
\* completion the table holds, under the key, the listing of the call that
\* completed, whatever was stored there before.
C23_NoSingleFlight ==
    /\ [](\A c, d \in Calls :
            (Overlap(c, d) /\ NoneStoredBefore(c, d)) =>
                /\ calls[c].cachedData = Null
                /\ calls[d].cachedData = Null
                /\ calls[d].gets = 1
                /\ calls[c].pc = "returned" => calls[c].sets = 1
                /\ calls[d].pc = "returned" => calls[d].sets = 1)
    /\ [][\A c \in Calls :
            (calls[c].pc = "awaiting" /\ calls'[c].pc = "returned") =>
                \A e \in EntriesOf(memoryCache', calls[c].cacheKey) :
                    e.data = calls'[c].ret]_vars

\* C23 witness: two fetches for the same key overlapped and both issued a
\* GET; the second completed and stored its listing, then the first
\* completed with another listing and overwrote it.
C23_Witness ==
    /\ Overlap(1, 2)
    /\ calls[1].pc = "returned"
    /\ calls[2].pc = "returned"
    /\ calls[2].gets = 1
    /\ calls[1].sets = 1
    /\ calls[2].sets = 1
    /\ calls[1].ret # calls[2].ret
    /\ last.op = "set"
    /\ last.data = calls[1].ret
    /\ \E e \in EntriesOf(memoryCache, calls[1].cacheKey) : e.data = calls[1].ret

----------------------------------------------------------------------------
(* C24: the tiers of parseAIResponse *)

\* The attempts the claim lists, in its order: the content of the fenced
\* block, the first brace-delimited substring, the trimmed response; each
\* the outcome of JSON.parse, or absent when there is no such text.
Attempts(text) ==
    (IF fencedMatch(text) # Null THEN <<jsonParse(fencedMatch(text).capture)>> ELSE <<>>)
        \o (IF bracedMatch(text) # Null THEN <<jsonParse(bracedMatch(text).capture)>> ELSE <<>>)
        \o <<jsonParse(trim(text))>>

Succeeded(attempts) == SelectSeq(attempts, LAMBDA r : r # SyntaxError)

\* A category that is a single string becomes a sequence of one.
Normalized(result) ==
    IF "category" \in DOMAIN result /\ "string" \in DOMAIN result.category
            /\ result.category.string # ""
    THEN [result EXCEPT !.category = Arr(<<result.category>>)]
    ELSE result

\* C24: parseAIResponse tries the fenced JSON block, then the first
\* brace-delimited substring, then the whole trimmed response, going on to the
\* next whenever one is not valid JSON, and returns the first that parses,
\* with a single-string category made a one-element sequence.
C24_TieredFallback ==
    (last.op = "parseAIResponse" /\ Succeeded(Attempts(last.text)) # <<>>) =>
        last.ret = Normalized(Succeeded(Attempts(last.text))[1])

----------------------------------------------------------------------------
(* C25: a failed fetch and the table *)

\* C25: when the GET of a trending fetch fails, the table is left as it was
\* (no entry created, changed or removed, under any key), and the next call
\* with the same arguments misses again and issues a new GET.
C25_FailureLeavesTable ==
    /\ [][\A c \in Calls :
            (calls[c].pc = "awaiting" /\ calls'[c].pc = "thrown") =>
                /\ memoryCache' = memoryCache
                /\ setLog' = setLog]_vars
    /\ [](\A c \in Calls :
            (c + 1 \in Calls /\ Alone(c) /\ Alone(c + 1) /\ calls[c].pc = "thrown"
                /\ calls[c + 1].options = calls[c].options) =>
                /\ calls[c + 1].cachedData = Null
                /\ calls[c + 1].gets = 1)

\* C25 witness: the fetch for c++/weekly failed, the table is empty, and the
\* same request made again has missed and is waiting for its own GET.
C25_Witness ==
    /\ calls[1].pc = "thrown"
    /\ calls[1].cacheKey = "trending:c++:weekly"
    /\ Alone(2)
    /\ calls[2].options = calls[1].options
    /\ calls[2].pc = "awaiting"
    /\ calls[2].gets = 1
    /\ memoryCache = <<>>

----------------------------------------------------------------------------
(* C26: reads and the table *)

\* C26: a get that hits leaves the table as it was, the expiry of the entry
\* it read and the order of the entries included. The table changes only by
\* a set (the entry under its key, if it stays, expires at now + ttl * 1000),
\* by a get that finds its entry expired, by the eviction of a set, and by
\* clear.
C26_HitIsReadOnly ==
    /\ [][(last'.op = "get" /\ last'.ret # Null) => memoryCache' = memoryCache]_vars
    /\ [][memoryCache' # memoryCache =>
            \/ last'.op \in {"set", "clear"}
            \/ /\ last'.op = "get"
               /\ last'.ret = Null
               /\ \E e \in EntriesOf(memoryCache, last'.key) : now > e.expiry
               /\ EntrySet(memoryCache') = EntrySet(memoryCache)
                        \ EntriesOf(memoryCache, last'.key)]_vars
    /\ [][last'.op = "set" =>
            \A e \in EntriesOf(memoryCache', last'.key) :
                e.expiry = now + last'.ttl * 1000 /\ e.data = last'.data]_vars

\* C26 witness: an entry was read, and hit, some time after it was set; it
\* still expires when its set said, and it is the next one to be evicted
\* although another entry was not read since.
C26_Witness ==
    /\ last.op = "get"
    /\ last.ret # Null
    /\ Len(memoryCache) = 2
    /\ \E s \in setLog :
          /\ s.key = last.key
          /\ s.at < now
          /\ \A e \in EntriesOf(memoryCache, last.key) : e.expiry = s.at + s.ttl * 1000
    /\ \A e \in EntrySet(memoryCache) :
          e.key # last.key => e.expiry > last.item.expiry

----------------------------------------------------------------------------
(* C27: cache keys and request URLs *)

\* C27: two trending fetches that get the same cache key build the same
\* request URL, whatever their language (one named "all", an empty one and
\* none included) and period.
C27_SameKeySameUrl ==
    last.op = "requestOf" =>
        (last.ret[1].cacheKey = last.ret[2].cacheKey => last.ret[1].url = last.ret[2].url)

----------------------------------------------------------------------------
(* C29, C30: the pipeline of the trending command *)

\* C29: what getTrendingRepos caches and returns is the full listing of a
\* page, whatever limit and topics the command was given; the command cuts
\* it afterwards, so every run without topics prints min(limit, n) records
\* of the n on the page, a run served from the cache after a run with a
\* smaller limit included.
C29_CacheIndependentOfLimit ==
    /\ \A e \in EntrySet(memoryCache) :
          \E html \in CommandPages : e.data = Arr(parseGitHubTrendingHtml(html))
    /\ \A k \in 1..Len(command.outputs) :
          LET o == command.outputs[k]
          IN  /\ \E html \in CommandPages :
                    /\ o.repositories = parseGitHubTrendingHtml(html)
                    /\ o.topics = <<>> =>
                          o.stdout = SubSeq(o.repositories, 1, Shorter(o.limit, Len(html)))
              /\ (k > 1 /\ o.gets = 0) =>
                    o.repositories = command.outputs[k - 1].repositories

\* C29 witness: a run with limit 1 fetched a page of three repositories and
\* printed one; the next run, with limit 25, was served from the cache and
\* printed all three.
C29_Witness ==
    /\ Len(command.outputs) = 2
    /\ command.outputs[1].limit = 1
    /\ command.outputs[1].gets = 1
    /\ Len(command.outputs[1].stdout) = 1
    /\ command.outputs[2].limit = 25
    /\ command.outputs[2].gets = 0
    /\ Len(command.outputs[2].stdout) = 3

\* Does a keyword match a scraped record: one of its topics, or a part of
\* its name, description and language, without regard to case?
MatchesRecord(repo, topic) ==
    \/ KeywordMatches("topics", repo, topic)
    \/ "name" \in DOMAIN repo /\ KeywordMatches("text", repo, topic)

\* C30: a run of the trending command with topics prints the scraped records
\* that one of the keywords matches without regard to case (up to the
\* limit), not an empty listing whatever the page holds.
C30_TopicsFocusListing ==
    \A k \in 1..Len(command.outputs) :
        LET o    == command.outputs[k]
            kept == SelectSeq(o.repositories,
                        LAMBDA repo : \E i \in 1..Len(o.topics) :
                            MatchesRecord(repo, o.topics[i]))
        IN  o.topics # <<>> => o.stdout = SubSeq(kept, 1, Shorter(o.limit, Len(kept)))

====
